---- MODULE Spec2Model ----
(***************************************************************************)
(* Model of the e-commerce sales forecasting pipeline:                     *)
(*   preprocess.py   preprocess_data  (group, resample, train/test split)  *)
(*   arima_model.py  make_stationary, arima_pipeline                       *)
(*   prophet_model.py prophet_pipeline                                     *)
(*   evaluate.py     calculate_mape, evaluate_forecast, compare_models     *)
(* Each function is a small state machine; every specification below draws *)
(* the function's inputs in its initial states and then runs its code.     *)
(***************************************************************************)
EXTENDS Integers, Sequences, FiniteSets, TLC

(* ------------------------------ bounds -------------------------------- *)

\* months of the calendar the input rows may fall in
MaxMonth == 3
\* rows of the input table
MaxRows == 2
\* largest test_size tried
MaxTestSize == 3

\* points of a series handed to make_stationary
MaxLen == 3
\* largest max_diff tried
MaxMaxDiff == 3
\* largest forecast_steps tried
MaxSteps == 2
\* points of a training frame handed to the pipelines
MaxTrainLen == 3
\* length of an array handed to the metrics
MaxMetricLen == 2
\* points of a forecast or test frame handed to compare_models
MaxEvalLen == 2

\* values of an array handed to the metrics
MetricVals == {-1, 0, 1, 2}
\* the entities: product ids (generate_data.py numbers them from 1)
ProductIds == {1, 2}
\* sales values of one input row
SalesVals == {1, 2}
\* p-values the Dickey-Fuller test may report, in hundredths: below, at and
\* above the threshold
PValues == {4, 5, 6}

(* --------------------------- program constants ------------------------- *)

\* the p-value threshold of check_stationarity, in hundredths (0.05)
Alpha == 5
\* make_stationary(series, max_diff=2)
DefaultMaxDiff == 2

VARIABLES
    \* preprocess_data
    df,             \* the input table: a sequence of rows [date, product_id, sales]
    test_size,      \* the test_size argument
    pre_pc,         \* "start", "loop", "returned"
    pre_groups,     \* the groups the for loop has still to visit
    train_data,     \* dict name -> training frame
    test_data,      \* dict name -> test frame
    \* make_stationary
    ms_input,       \* the series argument
    ms_max_diff,    \* the max_diff argument
    ms_series,      \* the local series
    ms_d,           \* the local d
    ms_hist,        \* the p-values check_stationarity has seen, one per call
    ms_pc,          \* "idle", "loop", "returned", "raised"
    \* arima_pipeline, prophet_pipeline
    forecast_steps,     \* the forecast_steps argument of both pipelines
    ap_pc,              \* "idle", "start", "loop", "stationary", "returned", "raised"
    ap_todo,            \* the keys arima_pipeline's loop has still to visit
    ap_key,             \* the key of the current iteration (0: none)
    arima_forecasts,    \* dict key -> ARIMA forecast
    pp_pc,              \* "idle", "start", "loop", "returned", "raised"
    pp_todo,            \* the keys prophet_pipeline's loop has still to visit
    prophet_forecasts,  \* dict key -> Prophet forecast frame
    \* calculate_mape, evaluate_forecast
    mt_actual,      \* the actual / y_true argument
    mt_predicted,   \* the predicted / y_pred argument
    mt_pc,          \* "idle", "call", "returned", "raised"
    mt_fn,          \* the function that ran: "", "evaluate_forecast", "calculate_mape"
    mt_result,      \* the value returned
    \* compare_models
    cm_pc,          \* "idle", "start", "loop", "returned", "raised"
    cm_todo,        \* the keys the loop has still to visit
    cm_key,         \* the key of the last iteration (0: none)
    cm_error,       \* the exception compare_models ended with ("": none)
    cm_results,     \* the rows appended so far
    \* the input table's header
    df_columns,     \* the columns df has
    \* generate_synthetic_sales_data
    gen_pc,             \* "idle", "start", "product", "dates", "returned"
    gen_num_products,   \* the num_products argument
    gen_num_dates,      \* len(dates): the month ends from start_date to end_date
    gen_product_id,     \* the product of the current iteration (0: none)
    gen_params,         \* its base_sales, trend and seasonality
    gen_date,           \* the index in dates of the last date visited
    gen_data,           \* the rows appended so far
    \* helpers.py
    hp_fn,          \* the function called
    hp_args,        \* its arguments
    hp_pc,          \* "idle", "call", "returned"
    hp_result,      \* the value returned
    \* utils/preprocess.py: clean_spotify_data, clean_youtube_data
    cl_fn,          \* the function called
    cl_input,       \* the frame as it was passed
    cl_df,          \* the caller's frame object, as it is now
    cl_pc,          \* "idle", "call", "returned"
    cl_result,      \* the frame returned
    \* data/fetch_spotify.py, data/fetch_youtube.py
    ft_sp,          \* SpotifyDataFetcher.sp: "unset", "None", "client"
    ft_youtube,     \* YouTubeDataFetcher.youtube: "unset", "None", "client"
    ft_pc,          \* "idle", "init", "ready", "returned", "raised"
    ft_call,        \* the method called and its limit
    ft_api,         \* what the API answers to the requests of the call
    ft_requests,    \* the requests made to the API, each with its limit
    ft_result,      \* the value returned
    \* dashboard/callbacks.py
    ds_pc,          \* "idle", "update", "process", "returned", "raised"
    ds_spotify,     \* spotify-data-store
    ds_youtube,     \* youtube-data-store
    ds_filters,     \* the platform, genre and time filter values
    ds_processed    \* what process_data returned

preVars == <<df, test_size, pre_pc, pre_groups, train_data, test_data>>
msVars == <<ms_input, ms_max_diff, ms_series, ms_d, ms_hist, ms_pc>>
apVars == <<ap_pc, ap_todo, ap_key, arima_forecasts>>
ppVars == <<pp_pc, pp_todo, prophet_forecasts>>
mtVars == <<mt_actual, mt_predicted, mt_pc, mt_fn, mt_result>>
cmVars == <<cm_pc, cm_todo, cm_key, cm_error, cm_results>>
genVars == <<gen_pc, gen_num_products, gen_num_dates, gen_product_id, gen_params,
            gen_date, gen_data>>
hpVars == <<hp_fn, hp_args, hp_pc, hp_result>>
clVars == <<cl_fn, cl_input, cl_df, cl_pc, cl_result>>
ftVars == <<ft_sp, ft_youtube, ft_pc, ft_call, ft_api, ft_requests, ft_result>>
dsVars == <<ds_pc, ds_spotify, ds_youtube, ds_filters, ds_processed>>
vars == <<preVars, msVars, forecast_steps, apVars, ppVars, mtVars, cmVars,
         df_columns, clVars, ftVars, dsVars, genVars, hpVars>>

\* what the steps of one function leave alone
othersPre == <<msVars, forecast_steps, apVars, ppVars, mtVars, cmVars,
             df_columns, clVars, ftVars, dsVars, genVars, hpVars>>
othersMs == <<preVars, forecast_steps, apVars, ppVars, mtVars, cmVars,
             df_columns, clVars, ftVars, dsVars, genVars, hpVars>>
othersAp == <<preVars, forecast_steps, ppVars, mtVars, cmVars,
             df_columns, clVars, ftVars, dsVars, genVars, hpVars>>
othersPp == <<preVars, msVars, forecast_steps, apVars, mtVars, cmVars,
             df_columns, clVars, ftVars, dsVars, genVars, hpVars>>
othersMt == <<preVars, msVars, forecast_steps, apVars, ppVars, cmVars,
             df_columns, clVars, ftVars, dsVars, genVars, hpVars>>
othersCm == <<preVars, msVars, forecast_steps, apVars, ppVars, mtVars,
             df_columns, clVars, ftVars, dsVars, genVars, hpVars>>

(* ------------------------- Python / pandas helpers --------------------- *)

Min(S) == CHOOSE x \in S : \A y \in S : x <= y

\* dict[k] = v
Put(d, k, v) == [x \in (DOMAIN d) \cup {k} |-> IF x = k THEN v ELSE d[x]]
EmptyDict == [x \in {} |-> 0]

\* Python's normalisation of a slice bound i for a sequence of length n:
\* a negative bound counts from the end, and everything is clamped to 0..n.
NormIdx(i, n) ==
    IF i < 0 THEN (IF n + i < 0 THEN 0 ELSE n + i)
             ELSE (IF i > n THEN n ELSE i)

\* a mutant of SliceTo: the bound is taken as "drop the last -stop points"
SliceToDropLast(s, stop) == SubSeq(s, 1, Len(s) + stop)

\* a slice that keeps the whole sequence
SliceToWhole(s, stop) == s

\* s[:stop]     (iloc[:stop])
SliceTo(s, stop) == SubSeq(s, 1, NormIdx(stop, Len(s)))

\* s[start:]    (iloc[start:])
SliceFrom(s, start) == SubSeq(s, NormIdx(start, Len(s)) + 1, Len(s))

\* the rows of one group, in the order of the table (df.groupby(group_by))
RECURSIVE GroupRows(_, _)
GroupRows(rows, name) ==
    IF rows = <<>> THEN <<>>
    ELSE IF Head(rows).product_id = name
         THEN <<Head(rows)>> \o GroupRows(Tail(rows), name)
         ELSE GroupRows(Tail(rows), name)

GroupKeys(rows) == {rows[i].product_id : i \in DOMAIN rows}

\* group.sort_values('date'): a stable insertion sort on the date
RECURSIVE InsertByDate(_, _)
InsertByDate(sorted, r) ==
    IF sorted = <<>> THEN <<r>>
    ELSE IF Head(sorted).date <= r.date
         THEN <<Head(sorted)>> \o InsertByDate(Tail(sorted), r)
         ELSE <<r>> \o sorted

RECURSIVE SortByDate(_)
SortByDate(rows) ==
    IF rows = <<>> THEN <<>>
    ELSE LET n == Len(rows)
         IN InsertByDate(SortByDate(SubSeq(rows, 1, n - 1)), rows[n])

RECURSIVE SumSales(_, _)
SumSales(rows, m) ==
    IF rows = <<>> THEN 0
    ELSE (IF Head(rows).date = m THEN Head(rows).sales ELSE 0)
         + SumSales(Tail(rows), m)

\* group.set_index('date').resample('M').sum()[['sales']] on date-sorted rows:
\* one point per month from the first to the last month of the group, the
\* sales of the month summed (0 for a month without rows).
Resample(rows) ==
    IF rows = <<>> THEN <<>>
    ELSE LET first == rows[1].date
             last  == rows[Len(rows)].date
         IN [i \in 1..(last - first + 1) |->
                [date |-> first + i - 1, sales |-> SumSales(rows, first + i - 1)]]

\* the monthly series of one entity, as preprocess_data builds it
Resampled(rows, name) == Resample(SortByDate(GroupRows(rows, name)))

(* ---------------------------- preprocess_data -------------------------- *)

Rows == [date : 1..MaxMonth, product_id : ProductIds, sales : SalesVals]
Tables == UNION {[1..n -> Rows] : n \in 0..MaxRows}

PreIdle ==
    /\ df = <<>>
    /\ test_size = 0
    /\ pre_pc = "idle"
    /\ pre_groups = {}
    /\ train_data = EmptyDict
    /\ test_data = EmptyDict

MsIdle ==
    /\ ms_input = <<>>
    /\ ms_max_diff = 0
    /\ ms_series = <<>>
    /\ ms_d = 0
    /\ ms_hist = <<>>
    /\ ms_pc = "idle"

\* the locals of a make_stationary call are gone once its result is used
MsReset ==
    /\ ms_input' = <<>>
    /\ ms_max_diff' = 0
    /\ ms_series' = <<>>
    /\ ms_d' = 0
    /\ ms_hist' = <<>>
    /\ ms_pc' = "idle"

FcIdle ==
    /\ forecast_steps = 0
    /\ ap_pc = "idle"
    /\ ap_todo = {}
    /\ ap_key = 0
    /\ arima_forecasts = EmptyDict
    /\ pp_pc = "idle"
    /\ pp_todo = {}
    /\ prophet_forecasts = EmptyDict

RequiredColumns == {"date", "product_id", "sales"}

GenIdle ==
    /\ gen_pc = "idle"
    /\ gen_num_products = 0
    /\ gen_num_dates = 0
    /\ gen_product_id = 0
    /\ gen_params = <<>>
    /\ gen_date = 0
    /\ gen_data = <<>>

NoResult == [kind |-> "none"]
NoFrame == [columns |-> {}, rows |-> <<>>]

ClIdle ==
    /\ cl_fn = ""
    /\ cl_input = NoFrame
    /\ cl_df = NoFrame
    /\ cl_pc = "idle"
    /\ cl_result = NoFrame

FtIdle ==
    /\ ft_sp = "unset"
    /\ ft_youtube = "unset"
    /\ ft_pc = "idle"
    /\ ft_call = [method |-> "", limit |-> 0]
    /\ ft_api = <<>>
    /\ ft_requests = <<>>
    /\ ft_result = <<>>

DsIdle ==
    /\ ds_pc = "idle"
    /\ ds_spotify = <<>>
    /\ ds_youtube = <<>>
    /\ ds_filters = <<>>
    /\ ds_processed = <<>>


HpIdle ==
    /\ hp_fn = ""
    /\ hp_args = <<>>
    /\ hp_pc = "idle"
    /\ hp_result = NoResult

NoMetrics == [MAE |-> 0, RMSE |-> 0, MAPE |-> 0]

EvIdle ==
    /\ mt_actual = <<>>
    /\ mt_predicted = <<>>
    /\ mt_pc = "idle"
    /\ mt_fn = ""
    /\ mt_result = NoMetrics
    /\ cm_pc = "idle"
    /\ cm_todo = {}
    /\ cm_key = 0
    /\ cm_error = ""
    /\ cm_results = <<>>

InitPre ==
    /\ df_columns = RequiredColumns
    /\ ClIdle /\ FtIdle /\ DsIdle
    /\ GenIdle
    /\ HpIdle
    /\ MsIdle
    /\ FcIdle
    /\ EvIdle
    /\ df \in Tables
    /\ test_size \in 0..MaxTestSize
    /\ pre_pc = "start"
    /\ pre_groups = {}
    /\ train_data = EmptyDict
    /\ test_data = EmptyDict

\* lines 29-31: the empty dictionaries and the groupby
PreprocessStart ==
    /\ pre_pc = "start"
    /\ "product_id" \in df_columns
    /\ pre_pc' = "loop"
    /\ pre_groups' = GroupKeys(df)
    /\ train_data' = EmptyDict
    /\ test_data' = EmptyDict
    /\ UNCHANGED <<df, test_size, othersPre>>

\* lines 33-48: one iteration of the loop over the groups, in key order
PreprocessGroup ==
    /\ pre_pc = "loop"
    /\ pre_groups # {}
    /\ {"date", "sales"} \subseteq df_columns
    /\ LET name  == Min(pre_groups)
           group == Resampled(df, name)
           train == SliceTo(group, -test_size)
           test  == SliceFrom(group, -test_size)
       IN /\ train_data' = Put(train_data, name, train)
          /\ test_data' = Put(test_data, name, test)
          /\ pre_groups' = pre_groups \ {name}
    /\ UNCHANGED <<df, test_size, pre_pc, othersPre>>

\* line 50
PreprocessReturn ==
    /\ pre_pc = "loop"
    /\ pre_groups = {}
    /\ pre_pc' = "returned"
    /\ UNCHANGED <<df, test_size, pre_groups, train_data, test_data, othersPre>>

\* line 31: groupby of a column df lacks raises pandas's KeyError
PreprocessKeyError ==
    /\ pre_pc = "start"
    /\ "product_id" \notin df_columns
    /\ pre_pc' = "raised"
    /\ UNCHANGED <<df, test_size, pre_groups, train_data, test_data, othersPre>>

\* lines 35, 41: sort_values('date') or group[['sales']] of a column df lacks
\* raises pandas's KeyError, in the first iteration
PreprocessGroupKeyError ==
    /\ pre_pc = "loop"
    /\ pre_groups # {}
    /\ ~({"date", "sales"} \subseteq df_columns)
    /\ pre_pc' = "raised"
    /\ UNCHANGED <<df, test_size, pre_groups, train_data, test_data, othersPre>>

NextPre == PreprocessStart \/ PreprocessGroup \/ PreprocessReturn

SpecPre == InitPre /\ [][NextPre]_vars


(* ---------------------- check_stationarity, make_stationary ------------ *)

\* What adfuller(series) can do: it reports a p-value, or it raises.  It has
\* no p-value for an empty sample; which other short or degenerate samples it
\* refuses depends on the sample, so every sample may raise.
AdfPValues(series) == IF Len(series) = 0 THEN {} ELSE PValues
AdfMayRaise(series) == TRUE

\* a mutant of IsStationary: the comparison the other way round
IsStationaryInverted(p) == p >= Alpha

\* line 18: result[1] < 0.05
IsStationary(p) == p < Alpha

\* a mutant of LoopCond: the order may reach max_diff + 1
LoopCondOffByOne(p, d, max_diff) == ~IsStationary(p) /\ d <= max_diff

\* line 32: not check_stationarity(series) and d < max_diff
LoopCond(p, d, max_diff) == ~IsStationary(p) /\ d < max_diff

\* a mutant of Diff: the leading undefined value is kept (as 0), not dropped
DiffKeepFirst(s) == [i \in 1..Len(s) |-> IF i = 1 THEN 0 ELSE s[i] - s[i - 1]]

\* line 33: series.diff().dropna()
Diff(s) == [i \in 1..(Len(s) - 1) |-> s[i + 1] - s[i]]

RECURSIVE DiffN(_, _)
DiffN(s, n) == IF n = 0 THEN s ELSE DiffN(Diff(s), n - 1)

SeriesOfLen(n) == [1..n -> SalesVals]
InputSeries == UNION {SeriesOfLen(n) : n \in 0..MaxLen}

InitStat ==
    /\ df_columns = RequiredColumns
    /\ ClIdle /\ FtIdle /\ DsIdle
    /\ GenIdle
    /\ HpIdle
    /\ PreIdle
    /\ FcIdle
    /\ EvIdle
    /\ ms_input \in InputSeries
    /\ ms_max_diff \in 0..MaxMaxDiff
    /\ ms_series = ms_input
    /\ ms_d = 0
    /\ ms_hist = <<>>
    /\ ms_pc = "loop"

\* lines 32-34: the test does not see a stationary series and d is below
\* max_diff: one more differencing
MsDifference ==
    /\ ms_pc = "loop"
    /\ \E p \in AdfPValues(ms_series) :
          /\ LoopCond(p, ms_d, ms_max_diff)
          /\ ms_series' = Diff(ms_series)
          /\ ms_d' = ms_d + 1
          /\ ms_hist' = Append(ms_hist, p)
    /\ UNCHANGED <<ms_input, ms_max_diff, ms_pc, othersMs>>

\* lines 32, 35: the loop condition is false: return series, d
MsReturn ==
    /\ ms_pc = "loop"
    /\ \E p \in AdfPValues(ms_series) :
          /\ ~LoopCond(p, ms_d, ms_max_diff)
          /\ ms_hist' = Append(ms_hist, p)
    /\ ms_pc' = "returned"
    /\ UNCHANGED <<ms_input, ms_max_diff, ms_series, ms_d, othersMs>>

\* line 17: adfuller raises, and nothing in make_stationary catches it
MsRaise ==
    /\ ms_pc = "loop"
    /\ AdfMayRaise(ms_series)
    /\ ms_pc' = "raised"
    /\ UNCHANGED <<ms_input, ms_max_diff, ms_series, ms_d, ms_hist, othersMs>>

MakeStationary == MsDifference \/ MsReturn \/ MsRaise

NextStat == MakeStationary

SpecStat == InitStat /\ [][NextStat]_vars

(* ------------------------ arima_pipeline, prophet_pipeline ------------- *)

\* df['sales']: the values of a frame's sales column
Sales(frame) == [i \in DOMAIN frame |-> frame[i].sales]

\* The libraries' fits are deterministic functions this repository does not
\* define; their results are kept as terms over what they were given.
\* train_arima (lines 48-49): the model ARIMA(series, order).fit()
ArimaModel(series, order) == [endog |-> series, order |-> order]
\* a forecast that loses one step for each order of differencing
ArimaForecastLessDiff(model, steps) ==
    [i \in 1..(steps - model.order[2]) |-> [model |-> model, step |-> i]]

\* forecast_arima (line 63): model.forecast(steps), one value per step
ArimaForecast(model, steps) == [i \in 1..steps |-> [model |-> model, step |-> i]]

\* train_prophet (lines 14-16): the frame as ds, y, and the model fitted to it
ProphetModel(frame) ==
    [history |-> [i \in DOMAIN frame |-> [ds |-> frame[i].date, y |-> frame[i].sales]]]
\* a future frame without the history's dates
FutureDatesOnly(model, periods) ==
    LET h == model.history
        last == IF h = <<>> THEN 0 ELSE h[Len(h)].ds
    IN [i \in 1..periods |-> last + i]

\* forecast_prophet (lines 30-31): make_future_dataframe keeps the history's
\* dates and adds `periods` months after the last one; predict gives one row
\* per date.
FutureDates(model, periods) ==
    LET h == model.history
        last == IF h = <<>> THEN 0 ELSE h[Len(h)].ds
    IN [i \in 1..(Len(h) + periods) |-> IF i <= Len(h) THEN h[i].ds ELSE last + (i - Len(h))]
ProphetForecast(model, periods) ==
    LET future == FutureDates(model, periods)
    IN [i \in DOMAIN future |-> [ds |-> future[i], yhat |-> [model |-> model, ds |-> future[i]]]]

\* a mutant of ArimaEndog: the model is fitted to the training series itself
ArimaEndogOriginal(series, stationary_series) == series

\* line 85: the series train_arima is given
ArimaEndog(series, stationary_series) == stationary_series

\* line 84
ArimaOrder(d) == <<1, d, 1>>

FramesOfLen(n) == {[i \in 1..n |-> [date |-> i, sales |-> v[i]]] : v \in SeriesOfLen(n)}
TrainFrames == UNION {FramesOfLen(n) : n \in 0..MaxTrainLen}
TrainDicts == UNION {[K -> TrainFrames] : K \in SUBSET ProductIds}

InitForecast ==
    /\ df_columns = RequiredColumns
    /\ ClIdle /\ FtIdle /\ DsIdle
    /\ GenIdle
    /\ HpIdle
    /\ df = <<>> /\ test_size = 0 /\ pre_pc = "idle" /\ pre_groups = {}
    /\ train_data \in TrainDicts
    /\ test_data = EmptyDict
    /\ MsIdle
    /\ forecast_steps \in 1..MaxSteps
    /\ ap_pc = "start" /\ ap_todo = {} /\ ap_key = 0 /\ arima_forecasts = EmptyDict
    /\ pp_pc = "idle" /\ pp_todo = {} /\ prophet_forecasts = EmptyDict
    /\ EvIdle

\* arima_model.py line 77
ArimaStart ==
    /\ ap_pc = "start"
    /\ ap_pc' = "loop"
    /\ ap_todo' = DOMAIN train_data
    /\ arima_forecasts' = EmptyDict
    /\ UNCHANGED <<ap_key, msVars, othersAp>>

\* lines 79-82: the next key of the dictionary, and the call of make_stationary
ArimaNextKey ==
    /\ ap_pc = "loop"
    /\ ap_todo # {}
    /\ LET key == Min(ap_todo)
           series == Sales(train_data[key])
       IN /\ ap_key' = key
          /\ ap_todo' = ap_todo \ {key}
          /\ ms_input' = series
          /\ ms_series' = series
    /\ ms_max_diff' = DefaultMaxDiff
    /\ ms_d' = 0
    /\ ms_hist' = <<>>
    /\ ms_pc' = "loop"
    /\ ap_pc' = "stationary"
    /\ UNCHANGED <<arima_forecasts, othersAp>>

\* the forecast of the current entity stored for every entity done so far
ArimaFitForecastShared ==
    /\ ap_pc = "stationary"
    /\ ms_pc = "returned"
    /\ LET series == Sales(train_data[ap_key])
           model == ArimaModel(ArimaEndog(series, ms_series), ArimaOrder(ms_d))
           forecast == ArimaForecast(model, forecast_steps)
       IN arima_forecasts' =
              [k \in (DOMAIN arima_forecasts) \cup {ap_key} |-> forecast]
    /\ ap_pc' = "loop"
    /\ MsReset
    /\ UNCHANGED <<ap_todo, ap_key, othersAp>>

\* lines 82-88: make_stationary has returned; fit, forecast and store
ArimaFitForecast ==
    /\ ap_pc = "stationary"
    /\ ms_pc = "returned"
    /\ LET series == Sales(train_data[ap_key])
           model == ArimaModel(ArimaEndog(series, ms_series), ArimaOrder(ms_d))
           forecast == ArimaForecast(model, forecast_steps)
       IN arima_forecasts' = Put(arima_forecasts, ap_key, forecast)
    /\ ap_pc' = "loop"
    /\ MsReset
    /\ UNCHANGED <<ap_todo, ap_key, othersAp>>

\* lines 85-87: the fit or the forecast raises; arima_pipeline has no handler
ArimaFitRaises ==
    /\ ap_pc = "stationary"
    /\ ms_pc = "returned"
    /\ ap_pc' = "raised"
    /\ MsReset
    /\ UNCHANGED <<ap_todo, ap_key, arima_forecasts, othersAp>>

\* line 82: make_stationary raised; arima_pipeline has no handler
ArimaStationarityRaises ==
    /\ ap_pc = "stationary"
    /\ ms_pc = "raised"
    /\ ap_pc' = "raised"
    /\ MsReset
    /\ UNCHANGED <<ap_todo, ap_key, arima_forecasts, othersAp>>

\* line 90
ArimaReturn ==
    /\ ap_pc = "loop"
    /\ ap_todo = {}
    /\ ap_pc' = "returned"
    /\ UNCHANGED <<ap_todo, ap_key, arima_forecasts, msVars, othersAp>>

ArimaPipeline ==
    \/ ArimaStart \/ ArimaNextKey \/ MakeStationary \/ ArimaFitForecast
    \/ ArimaFitRaises \/ ArimaStationarityRaises \/ ArimaReturn

\* main.py lines 29-33: prophet_pipeline is called once arima_pipeline has returned
CallProphetPipeline ==
    /\ ap_pc = "returned"
    /\ pp_pc = "idle"
    /\ pp_pc' = "start"
    /\ UNCHANGED <<pp_todo, prophet_forecasts, othersPp>>

\* prophet_model.py line 45
ProphetStart ==
    /\ pp_pc = "start"
    /\ pp_pc' = "loop"
    /\ pp_todo' = DOMAIN train_data
    /\ prophet_forecasts' = EmptyDict
    /\ UNCHANGED othersPp

\* lines 47-50: one iteration: fit, forecast and store
ProphetFitForecast ==
    /\ pp_pc = "loop"
    /\ pp_todo # {}
    /\ LET key == Min(pp_todo)
           model == ProphetModel(train_data[key])
           forecast == ProphetForecast(model, forecast_steps)
       IN /\ prophet_forecasts' = Put(prophet_forecasts, key, forecast)
          /\ pp_todo' = pp_todo \ {key}
    /\ UNCHANGED <<pp_pc, othersPp>>

\* lines 48-49: the fit or the forecast raises; prophet_pipeline has no handler
ProphetFitRaises ==
    /\ pp_pc = "loop"
    /\ pp_todo # {}
    /\ pp_pc' = "raised"
    /\ pp_todo' = pp_todo \ {Min(pp_todo)}
    /\ UNCHANGED <<prophet_forecasts, othersPp>>

\* line 52
ProphetReturn ==
    /\ pp_pc = "loop"
    /\ pp_todo = {}
    /\ pp_pc' = "returned"
    /\ UNCHANGED <<pp_todo, prophet_forecasts, othersPp>>

ProphetPipeline == ProphetStart \/ ProphetFitForecast \/ ProphetFitRaises \/ ProphetReturn

NextForecast == ArimaPipeline \/ CallProphetPipeline \/ ProphetPipeline

SpecForecast == InitForecast /\ [][NextForecast]_vars

(* ----------------------- calculate_mape, evaluate_forecast ------------- *)

\* The metrics are floating point numbers.  A finite one is kept exactly, as
\* a fraction in lowest terms (or as the square root of one); the two special
\* values a division by zero produces are kept as such.
Abs(x) == IF x < 0 THEN -x ELSE x

RECURSIVE GCD(_, _)
GCD(a, b) == IF b = 0 THEN a ELSE GCD(b, a % b)

Num(n, d) ==
    LET g == GCD(Abs(n), d) IN [kind |-> "num", num |-> n \div g, den |-> d \div g]
NaN == [kind |-> "nan", num |-> 0, den |-> 1]
Inf == [kind |-> "inf", num |-> 0, den |-> 1]

\* x + y
FAdd(x, y) ==
    IF x.kind = "nan" \/ y.kind = "nan" THEN NaN
    ELSE IF x.kind = "inf" \/ y.kind = "inf" THEN Inf
    ELSE Num(x.num * y.den + y.num * x.den, x.den * y.den)

\* abs(a / b) for two numbers of an array: 0 / 0 is nan, a / 0 is +-inf
FAbsDiv(a, b) ==
    IF b = 0 THEN (IF a = 0 THEN NaN ELSE Inf) ELSE Num(Abs(a), Abs(b))

\* x / n for a count n: the mean of no values is 0.0 / 0, nan
FDivInt(x, n) ==
    IF n = 0 \/ x.kind = "nan" THEN NaN
    ELSE IF x.kind = "inf" THEN Inf
    ELSE Num(x.num, x.den * n)

\* x * k for k > 0
FMulInt(x, k) == IF x.kind = "num" THEN Num(x.num * k, x.den) ELSE x

IsSquare(n) == \E r \in 0..n : r * r = n
ISqrt(n) == CHOOSE r \in 0..n : r * r = n

\* np.sqrt of a finite x >= 0
FSqrt(x) ==
    IF IsSquare(x.num) /\ IsSquare(x.den)
    THEN Num(ISqrt(x.num), ISqrt(x.den))
    ELSE [kind |-> "sqrt", num |-> x.num, den |-> x.den]

RECURSIVE FSum(_)
FSum(xs) == IF xs = <<>> THEN Num(0, 1) ELSE FAdd(Head(xs), FSum(Tail(xs)))

\* numpy's broadcasting of two one-dimensional arrays: equal lengths, or one
\* of them of length 1, which is repeated; anything else raises
BroadcastRaises(a, b) == Len(a) # Len(b) /\ Len(a) # 1 /\ Len(b) # 1
BroadcastLen(a, b) ==
    IF Len(a) = Len(b) THEN Len(a) ELSE IF Len(a) = 1 THEN Len(b) ELSE Len(a)
At(a, i) == IF Len(a) = 1 THEN a[1] ELSE a[i]

\* a mutant of AbsPctError: the two values are added, not subtracted
AbsPctErrorOfSum(t, p) == FAbsDiv(t + p, t)

\* evaluate.py line 16, one element: abs((y_true - y_pred) / y_true)
AbsPctError(t, p) == FAbsDiv(t - p, t)

\* evaluate.py line 16
MapeRaises(y_true, y_pred) == BroadcastRaises(y_true, y_pred)
CalculateMape(y_true, y_pred) ==
    LET n == BroadcastLen(y_true, y_pred)
        errs == [i \in 1..n |-> AbsPctError(At(y_true, i), At(y_pred, i))]
    IN FMulInt(FDivInt(FSum(errs), n), 100)

\* sklearn's mean_absolute_error and mean_squared_error raise for arrays of
\* different lengths and for arrays without a sample
SklearnRaises(actual, predicted) == Len(actual) # Len(predicted) \/ Len(actual) = 0

\* evaluate.py line 29
MeanAbsoluteError(actual, predicted) ==
    LET n == Len(actual)
    IN FDivInt(FSum([i \in 1..n |-> Num(Abs(actual[i] - predicted[i]), 1)]), n)

\* evaluate.py line 30, the argument of np.sqrt
MeanSquaredError(actual, predicted) ==
    LET n == Len(actual)
        sq(i) == (actual[i] - predicted[i]) * (actual[i] - predicted[i])
    IN FDivInt(FSum([i \in 1..n |-> Num(sq(i), 1)]), n)

\* evaluate.py lines 29-37
EvaluateRaises(actual, predicted) == SklearnRaises(actual, predicted)
EvaluateForecast(actual, predicted) ==
    [MAE  |-> MeanAbsoluteError(actual, predicted),
     RMSE |-> FSqrt(MeanSquaredError(actual, predicted)),
     MAPE |-> CalculateMape(actual, predicted)]

MetricSeqs == UNION {[1..n -> MetricVals] : n \in 0..MaxMetricLen}

InitMetric ==
    /\ df_columns = RequiredColumns
    /\ ClIdle /\ FtIdle /\ DsIdle
    /\ GenIdle
    /\ HpIdle
    /\ PreIdle /\ MsIdle /\ FcIdle
    /\ mt_actual \in MetricSeqs
    /\ mt_predicted \in MetricSeqs
    /\ mt_pc = "call"
    /\ mt_fn = ""
    /\ mt_result = NoMetrics
    /\ cm_pc = "idle" /\ cm_todo = {} /\ cm_key = 0 /\ cm_error = "" /\ cm_results = <<>>

\* a call calculate_mape(mt_actual, mt_predicted)
CallCalculateMape ==
    /\ mt_pc = "call"
    /\ mt_fn' = "calculate_mape"
    /\ \/ /\ ~MapeRaises(mt_actual, mt_predicted)
          /\ mt_result' = CalculateMape(mt_actual, mt_predicted)
          /\ mt_pc' = "returned"
       \/ /\ MapeRaises(mt_actual, mt_predicted)
          /\ mt_result' = NoMetrics
          /\ mt_pc' = "raised"
    /\ UNCHANGED <<mt_actual, mt_predicted, othersMt>>

\* a call evaluate_forecast(mt_actual, mt_predicted)
CallEvaluateForecast ==
    /\ mt_pc = "call"
    /\ mt_fn' = "evaluate_forecast"
    /\ \/ /\ ~EvaluateRaises(mt_actual, mt_predicted)
          /\ mt_result' = EvaluateForecast(mt_actual, mt_predicted)
          /\ mt_pc' = "returned"
       \/ /\ EvaluateRaises(mt_actual, mt_predicted)
          /\ mt_result' = NoMetrics
          /\ mt_pc' = "raised"
    /\ UNCHANGED <<mt_actual, mt_predicted, othersMt>>

NextMetric == CallCalculateMape \/ CallEvaluateForecast

SpecMetric == InitMetric /\ [][NextMetric]_vars

(* ------------------------------ compare_models ------------------------- *)

\* prophet_forecasts[key]['yhat'].values
Yhat(frame) == [i \in DOMAIN frame |-> frame[i].yhat]

\* a mutant of ProphetSlice: the first predictions instead of the last
ProphetSliceFirst(yhat, n) == SliceTo(yhat, n)

\* line 57: ...[-len(arima_pred):]
ProphetSlice(yhat, n) == SliceFrom(yhat, -n)

\* lines 62-70
ComparisonRow(key, arima_metrics, prophet_metrics) ==
    [Key          |-> key,
     ARIMA_MAE    |-> arima_metrics.MAE,
     ARIMA_RMSE   |-> arima_metrics.RMSE,
     ARIMA_MAPE   |-> arima_metrics.MAPE,
     Prophet_MAE  |-> prophet_metrics.MAE,
     Prophet_RMSE |-> prophet_metrics.RMSE,
     Prophet_MAPE |-> prophet_metrics.MAPE]

\* the arrays the metrics of one key are computed from
Actual(key) == Sales(test_data[key])
ArimaPred(key) == arima_forecasts[key]
ProphetPred(key) == ProphetSlice(Yhat(prophet_forecasts[key]), Len(ArimaPred(key)))

\* the inputs: forecasts and test frames of 0..MaxEvalLen points
ArimaInputs == {[i \in 1..n |-> i + 1] : n \in 0..MaxEvalLen}
ProphetInputs == {[i \in 1..n |-> [ds |-> i, yhat |-> i]] : n \in 0..MaxEvalLen}
TestInputs == {[i \in 1..n |-> [date |-> i, sales |-> i]] : n \in 0..MaxEvalLen}
DictsOver(values) == UNION {[K -> values] : K \in SUBSET ProductIds}

InitEval ==
    /\ df_columns = RequiredColumns
    /\ ClIdle /\ FtIdle /\ DsIdle
    /\ GenIdle
    /\ HpIdle
    /\ df = <<>> /\ test_size = 0 /\ pre_pc = "idle" /\ pre_groups = {}
    /\ train_data = EmptyDict
    /\ test_data \in DictsOver(TestInputs)
    /\ MsIdle
    /\ forecast_steps = 0
    /\ ap_pc = "idle" /\ ap_todo = {} /\ ap_key = 0
    /\ arima_forecasts \in DictsOver(ArimaInputs)
    /\ pp_pc = "idle" /\ pp_todo = {}
    /\ prophet_forecasts \in DictsOver(ProphetInputs)
    /\ mt_actual = <<>> /\ mt_predicted = <<>> /\ mt_pc = "idle" /\ mt_fn = ""
    /\ mt_result = NoMetrics
    /\ cm_pc = "start" /\ cm_todo = {} /\ cm_key = 0 /\ cm_error = "" /\ cm_results = <<>>

\* line 51
CompareStart ==
    /\ cm_pc = "start"
    /\ cm_pc' = "loop"
    /\ cm_todo' = DOMAIN arima_forecasts
    /\ cm_results' = <<>>
    /\ UNCHANGED <<cm_key, cm_error, othersCm>>

\* lines 53-54: a key of arima_forecasts that test_data lacks is passed over
CompareSkip ==
    /\ cm_pc = "loop"
    /\ cm_todo # {}
    /\ LET key == Min(cm_todo)
       IN /\ key \notin DOMAIN test_data
          /\ cm_key' = key
          /\ cm_todo' = cm_todo \ {key}
    /\ UNCHANGED <<cm_pc, cm_error, cm_results, othersCm>>

\* line 57: prophet_forecasts[key] for a key prophet_forecasts lacks
CompareKeyError ==
    /\ cm_pc = "loop"
    /\ cm_todo # {}
    /\ LET key == Min(cm_todo)
       IN /\ key \in DOMAIN test_data
          /\ key \notin DOMAIN prophet_forecasts
          /\ cm_key' = key
          /\ cm_todo' = cm_todo \ {key}
    /\ cm_pc' = "raised"
    /\ cm_error' = "KeyError"
    /\ UNCHANGED <<cm_results, othersCm>>

\* lines 59-60: one of the two calls of evaluate_forecast raises
CompareValueError ==
    /\ cm_pc = "loop"
    /\ cm_todo # {}
    /\ LET key == Min(cm_todo)
       IN /\ key \in DOMAIN test_data
          /\ key \in DOMAIN prophet_forecasts
          /\ \/ EvaluateRaises(Actual(key), ArimaPred(key))
             \/ EvaluateRaises(Actual(key), ProphetPred(key))
          /\ cm_key' = key
          /\ cm_todo' = cm_todo \ {key}
    /\ cm_pc' = "raised"
    /\ cm_error' = "ValueError"
    /\ UNCHANGED <<cm_results, othersCm>>

\* lines 55-70: the metrics of both models, and the row
CompareAppend ==
    /\ cm_pc = "loop"
    /\ cm_todo # {}
    /\ LET key == Min(cm_todo)
       IN /\ key \in DOMAIN test_data
          /\ key \in DOMAIN prophet_forecasts
          /\ ~EvaluateRaises(Actual(key), ArimaPred(key))
          /\ ~EvaluateRaises(Actual(key), ProphetPred(key))
          /\ cm_results' = Append(cm_results,
                ComparisonRow(key, EvaluateForecast(Actual(key), ArimaPred(key)),
                                   EvaluateForecast(Actual(key), ProphetPred(key))))
          /\ cm_key' = key
          /\ cm_todo' = cm_todo \ {key}
    /\ UNCHANGED <<cm_pc, cm_error, othersCm>>

\* line 72
CompareReturn ==
    /\ cm_pc = "loop"
    /\ cm_todo = {}
    /\ cm_pc' = "returned"
    /\ UNCHANGED <<cm_todo, cm_key, cm_error, cm_results, othersCm>>

CompareModels ==
    \/ CompareStart \/ CompareSkip \/ CompareKeyError \/ CompareValueError
    \/ CompareAppend \/ CompareReturn

NextEval == CompareModels

SpecEval == InitEval /\ [][NextEval]_vars

(* ---------- generate_synthetic_sales_data (data/generate_data.py) ---------- *)

MaxGenProducts == 1
MaxGenDates == 2

\* the draws, as exact fractions: np.random.randint(100, 1000),
\* np.random.uniform(-0.05, 0.05), np.random.uniform(0.8, 1.2),
\* np.random.normal(0, 0.1) (unbounded: -1.2 is a draw), np.random.choice([0, 1])
BaseSalesVals == {100, 500}
TrendVals == {Num(-1, 20), Num(1, 20)}
SeasonalityVals == {Num(4, 5), Num(6, 5)}
NoiseVals == {Num(-6, 5), Num(1, 10)}
PromotionVals == {0, 1}

\* x * y
FMul(x, y) == Num(x.num * y.num, x.den * y.den)

\* int(x): the fraction cut towards zero
PyInt(x) == IF x.num < 0 THEN -((-x.num) \div x.den) ELSE x.num \div x.den

\* date.month of the i-th month end from the default start_date 2020-01-01
MonthOf(i) == ((i - 1) % 12) + 1

\* 0.1 * np.sin(2 * np.pi * month / 12), to three decimals
SinTerm(month) ==
    Num(<<50, 87, 100, 87, 50, 0, -50, -87, -100, -87, -50, 0>>[month], 1000)

\* (date - start).days of the i-th month end of 2020
DaysSinceStart(i) ==
    <<30, 59, 90, 120, 151, 181, 212, 243, 273, 304, 334, 365>>[i]

SeasonalFactor(seasonality, i) == FAdd(seasonality, SinTerm(MonthOf(i)))
TimeFactor(trend, i) == FAdd(Num(1, 1), FMul(trend, Num(DaysSinceStart(i), 365)))
PromotionFactor(promotion) == IF promotion = 1 THEN Num(6, 5) ELSE Num(1, 1)

\* line 41
RawSales(params, i, noise, promotion) ==
    PyInt(FMul(FMul(FMul(FMul(Num(params.base_sales, 1),
                              SeasonalFactor(params.seasonality, i)),
                         TimeFactor(params.trend, i)),
                    FAdd(Num(1, 1), noise)),
               PromotionFactor(promotion)))

\* the clamp left out
ClampSalesAbsent(sales) == sales

\* max(0, sales)
ClampSales(sales) == IF 0 >= sales THEN 0 ELSE sales

\* the row appended for a date (category and price, which nothing reads, are
\* left out)
GenRow(product_id, params, i, noise, promotion) ==
    [date |-> i,
     product_id |-> product_id,
     sales |-> ClampSales(RawSales(params, i, noise, promotion)),
     promotion_flag |-> promotion]

othersGen == <<preVars, msVars, forecast_steps, apVars, ppVars, mtVars, cmVars,
               df_columns, clVars, ftVars, dsVars, hpVars>>

InitGen ==
    /\ df_columns = RequiredColumns
    /\ ClIdle /\ FtIdle /\ DsIdle
    /\ PreIdle /\ MsIdle /\ FcIdle /\ EvIdle /\ HpIdle
    /\ gen_pc = "start"
    /\ gen_num_products \in 0..MaxGenProducts
    /\ gen_num_dates \in 0..MaxGenDates
    /\ gen_product_id = 0
    /\ gen_params = <<>>
    /\ gen_date = 0
    /\ gen_data = <<>>

\* lines 18-22: dates and the empty list
GenStart ==
    /\ gen_pc = "start"
    /\ gen_pc' = "product"
    /\ UNCHANGED <<gen_num_products, gen_num_dates, gen_product_id, gen_params,
                   gen_date, gen_data, othersGen>>

\* lines 24-28: the next product and its draws
GenNextProduct ==
    /\ gen_pc = "product"
    /\ gen_product_id < gen_num_products
    /\ \E base_sales \in BaseSalesVals, trend \in TrendVals,
          seasonality \in SeasonalityVals :
          gen_params' = [base_sales |-> base_sales, trend |-> trend,
                         seasonality |-> seasonality]
    /\ gen_product_id' = gen_product_id + 1
    /\ gen_date' = 0
    /\ gen_pc' = "dates"
    /\ UNCHANGED <<gen_num_products, gen_num_dates, gen_data, othersGen>>

\* lines 30-51: one date of the inner loop
GenAppendRow ==
    /\ gen_pc = "dates"
    /\ gen_date < gen_num_dates
    /\ \E noise \in NoiseVals, promotion \in PromotionVals :
          gen_data' = Append(gen_data,
                             GenRow(gen_product_id, gen_params, gen_date + 1,
                                    noise, promotion))
    /\ gen_date' = gen_date + 1
    /\ UNCHANGED <<gen_pc, gen_num_products, gen_num_dates, gen_product_id,
                   gen_params, othersGen>>

\* the inner loop is over
GenEndProduct ==
    /\ gen_pc = "dates"
    /\ gen_date = gen_num_dates
    /\ gen_pc' = "product"
    /\ UNCHANGED <<gen_num_products, gen_num_dates, gen_product_id, gen_params,
                   gen_date, gen_data, othersGen>>

\* lines 53-54
GenReturn ==
    /\ gen_pc = "product"
    /\ gen_product_id = gen_num_products
    /\ gen_pc' = "returned"
    /\ UNCHANGED <<gen_num_products, gen_num_dates, gen_product_id, gen_params,
                   gen_date, gen_data, othersGen>>

GenerateSyntheticSalesData ==
    \/ GenStart \/ GenNextProduct \/ GenAppendRow \/ GenEndProduct \/ GenReturn

NextGen == GenerateSyntheticSalesData

SpecGen == InitGen /\ [][NextGen]_vars

(* ------------------- main (src/main.py), lines 23-37 ------------------- *)

DefaultTestSize == 12
DefaultForecastSteps == 12
DefaultMonths == 48

\* the numbers a fitted model may forecast
ForecastVals == {-1, 0, 2}

\* a forecast that is one step short
ArimaForecastValuesShort(steps, level) == [i \in 1..(steps - 1) |-> level]

\* forecast_arima (line 63) with the library's numbers: one value per step
ArimaForecastValues(steps, level) == [i \in 1..steps |-> level]

\* forecast_prophet (lines 30-31) with the library's numbers: one row per date
\* of the future frame
ProphetForecastValues(model, periods, level) ==
    LET future == FutureDates(model, periods)
    IN [i \in DOMAIN future |-> [ds |-> future[i], yhat |-> level]]

\* one product with a row for each of n months; the month zero_at (if any)
\* has no sales
LongTable(n, zero_at) ==
    [i \in 1..n |-> [date |-> i, product_id |-> 1,
                     sales |-> IF i = zero_at THEN 0 ELSE 1 + (i % 2)]]

\* the tables of the default date range: without a zero, and with one in the
\* first or the last month of the test period
LongTables ==
    {LongTable(DefaultMonths, z) :
        z \in {0, DefaultMonths - DefaultTestSize + 1, DefaultMonths}}

MainTables == Tables \cup LongTables

InitMain ==
    /\ GenIdle /\ HpIdle /\ MsIdle /\ FcIdle /\ EvIdle
    /\ df \in MainTables
    /\ df_columns \in SUBSET RequiredColumns
    /\ ClIdle /\ FtIdle /\ DsIdle
    /\ test_size = DefaultTestSize
    /\ pre_pc = "start"
    /\ pre_groups = {}
    /\ train_data = EmptyDict
    /\ test_data = EmptyDict

\* main.py line 25
MainPreprocess ==
    \/ PreprocessStart \/ PreprocessKeyError \/ PreprocessGroup
    \/ PreprocessGroupKeyError \/ PreprocessReturn

\* main.py line 29: arima_pipeline(train_data), once preprocess_data has returned
CallArimaPipeline ==
    /\ pre_pc = "returned"
    /\ ap_pc = "idle"
    /\ ap_pc' = "start"
    /\ forecast_steps' = DefaultForecastSteps
    /\ UNCHANGED <<ap_todo, ap_key, arima_forecasts, preVars, msVars, ppVars,
                   mtVars, cmVars, df_columns, clVars, ftVars, dsVars, genVars, hpVars>>

\* arima_model.py lines 82-88, with the forecast's numbers
ArimaFitForecastValues ==
    /\ ap_pc = "stationary"
    /\ ms_pc = "returned"
    /\ \E level \in ForecastVals :
          arima_forecasts' =
              Put(arima_forecasts, ap_key, ArimaForecastValues(forecast_steps, level))
    /\ ap_pc' = "loop"
    /\ MsReset
    /\ UNCHANGED <<ap_todo, ap_key, othersAp>>

\* prophet_model.py lines 47-50, with the forecast's numbers
ProphetFitForecastValues ==
    /\ pp_pc = "loop"
    /\ pp_todo # {}
    /\ \E level \in ForecastVals :
          LET key == Min(pp_todo)
              model == ProphetModel(train_data[key])
              forecast == ProphetForecastValues(model, forecast_steps, level)
          IN /\ prophet_forecasts' = Put(prophet_forecasts, key, forecast)
             /\ pp_todo' = pp_todo \ {key}
    /\ UNCHANGED <<pp_pc, othersPp>>

MainArimaPipeline ==
    \/ ArimaStart \/ ArimaNextKey \/ MakeStationary \/ ArimaFitForecastValues
    \/ ArimaFitRaises \/ ArimaStationarityRaises \/ ArimaReturn

MainProphetPipeline ==
    \/ ProphetStart \/ ProphetFitForecastValues \/ ProphetFitRaises \/ ProphetReturn

\* main.py line 37: compare_models, once prophet_pipeline has returned
CallCompareModels ==
    /\ pp_pc = "returned"
    /\ cm_pc = "idle"
    /\ cm_pc' = "start"
    /\ UNCHANGED <<cm_todo, cm_key, cm_error, cm_results, othersCm>>

\* Both pipelines give every key of train_data a forecast of forecast_steps
\* points, and preprocess_data gives test_data the same keys: the branches of
\* compare_models for a missing key or for arrays of different lengths are
\* not taken from main.
MainCompareModels == CompareStart \/ CompareAppend \/ CompareReturn

NextMain ==
    \/ MainPreprocess \/ CallArimaPipeline \/ MainArimaPipeline
    \/ CallProphetPipeline \/ MainProphetPipeline
    \/ CallCompareModels \/ MainCompareModels

SpecMain == InitMain /\ [][NextMain]_vars

(* ------------- main.py: what the forecasts are computed from --------------- *)

MaxFlowTrain == 2

\* the rows of one product: the months of the training period with the sales
\* given, then the DefaultTestSize months of the test period, each with the
\* sales held_out
FlowRows(product, train_sales, held_out) ==
    [i \in 1..(Len(train_sales) + DefaultTestSize) |->
        [date |-> i, product_id |-> product,
         sales |-> IF i <= Len(train_sales) THEN train_sales[i] ELSE held_out]]

\* the tables of one product, and of two of which the second is fixed
FlowTables ==
    LET first == {FlowRows(1, train_sales, held_out) :
                     train_sales \in UNION {[1..n -> {1, 2}] : n \in 1..MaxFlowTrain},
                     held_out \in {0, 3}}
    IN first \cup {rows \o FlowRows(2, <<2>>, 1) : rows \in first}

InitFlow ==
    /\ GenIdle /\ HpIdle /\ MsIdle /\ FcIdle /\ EvIdle
    /\ df \in FlowTables
    /\ df_columns = RequiredColumns
    /\ ClIdle /\ FtIdle /\ DsIdle
    /\ test_size = DefaultTestSize
    /\ pre_pc = "start"
    /\ pre_groups = {}
    /\ train_data = EmptyDict
    /\ test_data = EmptyDict

\* main.py lines 25-37, the fits kept as terms; compare_models is called and
\* not run, its metrics being numbers of forecasts that are numbers
NextFlow ==
    \/ PreprocessStart \/ PreprocessGroup \/ PreprocessReturn
    \/ CallArimaPipeline \/ ArimaPipeline
    \/ CallProphetPipeline \/ ProphetPipeline
    \/ CallCompareModels

SpecFlow == InitFlow /\ [][NextFlow]_vars

(* ---------------------------- utils/helpers.py ---------------------------- *)

MaxOffset == 4
MaxCount == 3

Thousand == 1000
Million == 1000000
Billion == 1000000000

\* num >= k, for a fraction num
AtLeastStrict(num, k) == num.num > k * num.den

AtLeast(num, k) == num.num >= k * num.den

\* the strings format_number builds: whole, one decimal digit or none, suffix
FormattedNumber(whole, decimals, suffix) ==
    [whole |-> whole, decimals |-> decimals, suffix |-> suffix]

\* f"{num/unit:.1f}" + suffix. The quotient is rounded to the nearest tenth;
\* when it lies halfway between two tenths the digit depends on the binary
\* float nearest to the quotient, and both neighbours are outcomes.
OneDecimal(num, unit, suffix) ==
    LET D == num.den * (unit \div 10)
        q == num.num \div D
        r == num.num % D
        tenths == {t \in {q, q + 1} : (t = q /\ 2 * r <= D) \/ (t = q + 1 /\ 2 * r >= D)}
    IN {FormattedNumber(t \div 10, <<t % 10>>, suffix) : t \in tenths}

\* lines 19-26
FormatNumber(num) ==
    IF AtLeast(num, Billion) THEN OneDecimal(num, Billion, "B")
    ELSE IF AtLeast(num, Million) THEN OneDecimal(num, Million, "M")
    ELSE IF AtLeast(num, Thousand) THEN OneDecimal(num, Thousand, "K")
    ELSE {FormattedNumber(PyInt(num), <<>>, "")}

\* the rate without the guard for views == 0
EngagementRateUnguarded(likes, views) ==
    IF likes = 0 THEN Num(0, 1) ELSE FMulInt(FAbsDiv(likes, views), 100)

\* lines 39-41
EngagementRate(likes, views) ==
    IF views = 0 THEN Num(0, 1) ELSE FMulInt(Num(likes, views), 100)

\* the arguments: halves around zero and around each threshold, the numbers
\* of the tests, and numbers whose quotient is halfway or rounds up to 1000.0
Around(k) == {Num(2 * k + o, 2) : o \in (0 - MaxOffset)..MaxOffset}
FormatInputs ==
    Around(0) \cup Around(Thousand) \cup Around(Million) \cup Around(Billion)
    \cup {Num(n, 1) : n \in {500, 1500, 2500000, 1250, 1350, 999949, 999950,
                             999999999, -1500, 2100000000}}
\* small counts, and the counts of the tests
Counts == (0..MaxCount) \cup {50, 100, 1000}

\* ---- parse_duration (lines 43-76); a string is its sequence of characters
MaxDigits == 2

DigitChars == <<"0", "1", "2", "3", "4", "5", "6", "7", "8", "9">>
IsDigit(c) == \E i \in 1..10 : DigitChars[i] = c
DigitValue(c) == (CHOOSE i \in 1..10 : DigitChars[i] = c) - 1

\* int(...) of the digits s[i..j]
RECURSIVE IntOfDigits(_, _, _)
IntOfDigits(s, i, j) ==
    IF j < i THEN 0 ELSE 10 * IntOfDigits(s, i, j - 1) + DigitValue(s[j])

\* the last index of the run of digits that starts at i
RECURSIVE RunEnd(_, _)
RunEnd(s, i) == IF i < Len(s) /\ IsDigit(s[i + 1]) THEN RunEnd(s, i + 1) ELSE i

\* duration.replace('PT', ''): every occurrence, from the left
RECURSIVE ReplacePT(_)
ReplacePT(s) ==
    IF Len(s) < 2 THEN s
    ELSE IF s[1] = "P" /\ s[2] = "T" THEN ReplacePT(SubSeq(s, 3, Len(s)))
    ELSE <<s[1]>> \o ReplacePT(Tail(s))

\* a search that captures one digit only: (\d)H
RegexSearchOneDigit(s, letter) ==
    LET starts == {i \in 1..Len(s) - 1 : IsDigit(s[i]) /\ s[i + 1] = letter}
    IN IF starts = {} THEN 0 ELSE DigitValue(s[Min(starts)])

\* re.search(r'(\d+)<letter>', s) and int(group(1)), 0 without a match: the
\* leftmost start of digits whose run is followed by the letter
RegexSearch(s, letter) ==
    LET starts == {i \in 1..Len(s) :
                      /\ IsDigit(s[i])
                      /\ RunEnd(s, i) < Len(s)
                      /\ s[RunEnd(s, i) + 1] = letter}
    IN IF starts = {} THEN 0 ELSE IntOfDigits(s, Min(starts), RunEnd(s, Min(starts)))

\* lines 53-76; the argument is [type, chars, truthy]
ParseDuration(duration) ==
    IF ~duration.truthy \/ duration.type # "str" THEN 0
    ELSE LET s == ReplacePT(duration.chars)
         IN RegexSearch(s, "H") * 3600 + RegexSearch(s, "M") * 60 + RegexSearch(s, "S")

Str(chars) == [type |-> "str", chars |-> chars, truthy |-> chars # <<>>]
\* None, 0, 7 and a non-empty list
NonStrings ==
    {[type |-> "NoneType", chars |-> <<>>, truthy |-> FALSE],
     [type |-> "int", chars |-> <<>>, truthy |-> FALSE],
     [type |-> "int", chars |-> <<"7">>, truthy |-> TRUE],
     [type |-> "list", chars |-> <<"3", "S">>, truthy |-> TRUE]}

\* the strings PT[<h>H][<m>M][<s>S] with components of 1..MaxDigits digits,
\* and those of the tests
DigitStrings == UNION {[1..n -> {"0", "3", "4"}] : n \in 1..MaxDigits}
Component(letter) == {<<>>} \cup {ds \o <<letter>> : ds \in DigitStrings}
DurationStrings ==
    {<<"P", "T">> \o h \o m \o s :
        h \in Component("H"), m \in Component("M"), s \in Component("S")}
    \cup {<<"P", "T", "4", "M", "1", "3", "S">>,
          <<"P", "T", "1", "H", "3", "0", "M", "4", "5", "S">>,
          <<"P", "T", "3", "0", "S">>}
DurationInputs == {Str(s) : s \in DurationStrings \cup {<<>>}} \cup NonStrings

othersHp == <<preVars, msVars, forecast_steps, apVars, ppVars, mtVars, cmVars,
              df_columns, clVars, ftVars, dsVars, genVars>>

CallFormatNumber ==
    /\ hp_pc = "call"
    /\ hp_fn = "format_number"
    /\ hp_result' \in FormatNumber(hp_args[1])
    /\ hp_pc' = "returned"
    /\ UNCHANGED <<hp_fn, hp_args, othersHp>>

CallCalculateEngagementRate ==
    /\ hp_pc = "call"
    /\ hp_fn = "calculate_engagement_rate"
    /\ hp_result' = EngagementRate(hp_args[1], hp_args[2])
    /\ hp_pc' = "returned"
    /\ UNCHANGED <<hp_fn, hp_args, othersHp>>

CallParseDuration ==
    /\ hp_pc = "call"
    /\ hp_fn = "parse_duration"
    /\ hp_result' = ParseDuration(hp_args[1])
    /\ hp_pc' = "returned"
    /\ UNCHANGED <<hp_fn, hp_args, othersHp>>

(* ----------------------------- config/api_keys.py -------------------------- *)

\* a value of os.getenv: None or a string
EnvUnset == [set |-> FALSE, chars |-> <<>>]
EnvStr(chars) == [set |-> TRUE, chars |-> chars]

\* a test that takes every string, '' included, for a key that is present
TruthyNotNone(value) == value.set

\* `not value` is false: neither None nor ''
Truthy(value) == value.set /\ value.chars # <<>>

\* int(os.getenv('PORT', 8050)): the default without the variable, the
\* number a string of digits writes, ValueError for another string
IntOfPort(value) ==
    IF ~value.set THEN [kind |-> "int", value |-> 8050]
    ELSE IF value.chars # <<>> /\ \A i \in DOMAIN value.chars : IsDigit(value.chars[i])
         THEN [kind |-> "int", value |-> IntOfDigits(value.chars, 1, Len(value.chars))]
    ELSE [kind |-> "ValueError", value |-> 0]

\* lines 15-23, when int(...) returns
APIKeysInit(env) ==
    [spotify_client_id |-> env.SPOTIFY_CLIENT_ID,
     spotify_client_secret |-> env.SPOTIFY_CLIENT_SECRET,
     youtube_api_key |-> env.YOUTUBE_API_KEY,
     port |-> IntOfPort(env.PORT).value]

\* lines 27-34
MissingKeys(self) ==
    (IF ~Truthy(self.spotify_client_id) THEN <<"SPOTIFY_CLIENT_ID">> ELSE <<>>)
    \o (IF ~Truthy(self.spotify_client_secret) THEN <<"SPOTIFY_CLIENT_SECRET">> ELSE <<>>)
    \o (IF ~Truthy(self.youtube_api_key) THEN <<"YOUTUBE_API_KEY">> ELSE <<>>)

\* lines 36-39; the message is the prefix and the names that ', ' joins
ValidateKeys(self) ==
    IF MissingKeys(self) # <<>>
    THEN [kind |-> "ValueError", value |-> FALSE,
          message |-> <<"Missing required API keys: ", MissingKeys(self)>>]
    ELSE [kind |-> "bool", value |-> TRUE, message |-> <<>>]

KeyValues == {EnvUnset, EnvStr(<<>>), EnvStr(<<"k">>)}
PortValues == {EnvUnset, EnvStr(<<"8", "0">>), EnvStr(<<"a">>)}
Environments ==
    [SPOTIFY_CLIENT_ID : KeyValues, SPOTIFY_CLIENT_SECRET : KeyValues,
     YOUTUBE_API_KEY : KeyValues, PORT : PortValues]

\* lines 42-50: the import of the module; hp_result is then the module, with
\* its global api_keys and what it printed
ImportApiKeys ==
    /\ hp_pc = "import"
    /\ hp_fn = "validate_keys"
    /\ LET env == hp_args[1]
           validated == ValidateKeys(APIKeysInit(env))
       IN IF IntOfPort(env.PORT).kind = "ValueError"
          THEN /\ hp_pc' = "import raised"
               /\ hp_result' = [kind |-> "ValueError"]
          ELSE /\ hp_pc' = "call"
               /\ hp_result' =
                     [kind |-> "module",
                      api_keys |-> APIKeysInit(env),
                      printed |-> IF validated.kind = "ValueError"
                                  THEN <<"Warning: ", validated.message>>
                                  ELSE <<"All API keys loaded successfully!">>]
    /\ UNCHANGED <<hp_fn, hp_args, othersHp>>

\* api_keys.validate_keys() of the imported module
CallValidateKeys ==
    /\ hp_pc = "call"
    /\ hp_fn = "validate_keys"
    /\ hp_result' = ValidateKeys(hp_result.api_keys)
    /\ hp_pc' = "returned"
    /\ UNCHANGED <<hp_fn, hp_args, othersHp>>

InitHelpers ==
    /\ df_columns = RequiredColumns
    /\ ClIdle /\ FtIdle /\ DsIdle
    /\ PreIdle /\ MsIdle /\ FcIdle /\ EvIdle /\ GenIdle
    /\ hp_result = NoResult
    /\ \/ /\ hp_fn = "format_number"
          /\ hp_args \in {<<num>> : num \in FormatInputs}
       \/ /\ hp_fn = "calculate_engagement_rate"
          /\ hp_args \in {<<likes, views>> : likes \in Counts, views \in Counts}
       \/ /\ hp_fn = "parse_duration"
          /\ hp_args \in {<<duration>> : duration \in DurationInputs}
       \/ /\ hp_fn = "validate_keys"
          /\ hp_args \in {<<env>> : env \in Environments}
    /\ hp_pc = IF hp_fn = "validate_keys" THEN "import" ELSE "call"

NextHelpers ==
    \/ CallFormatNumber
    \/ CallCalculateEngagementRate
    \/ CallParseDuration
    \/ ImportApiKeys
    \/ CallValidateKeys

SpecHelpers == InitHelpers /\ [][NextHelpers]_vars

(* --------------------------- utils/preprocess.py --------------------------- *)

MaxCleanRows == 2

\* a missing value of a column of strings; a missing number is NaN
NA == "<NA>"

\* fillna({column: 'Unknown'}) for one value
FillNa(value) == IF value = NA THEN "Unknown" ELSE value

\* pd.to_datetime(..., errors='coerce') for one value
ToDatetime(value) == IF value = NA THEN "NaT" ELSE <<"datetime", value>>

\* a column of numbers divided by a number: numpy's float division, which
\* gives nan for 0 / 0 and inf for x / 0 and does not raise
SeriesDiv(x, m) ==
    IF x.kind # "num" THEN x
    ELSE IF m = 0 THEN (IF x.num = 0 THEN NaN ELSE Inf)
    ELSE Num(x.num, x.den * m)

\* Series.max(), for a column without a missing value
RECURSIVE SeriesMax(_)
SeriesMax(values) ==
    IF Len(values) = 1 THEN values[1]
    ELSE LET m == SeriesMax(Tail(values))
         IN IF values[1].num >= m.num THEN values[1] ELSE m

Column(frame, name) == [i \in DOMAIN frame.rows |-> frame.rows[i][name]]

\* the caller's frame when the function had written to it
CallerFrameAliased(passed, cleaned) == cleaned

\* lines 17, 41: df = df.copy(): the function writes to a copy, and the
\* caller's frame stays as it was passed
CallerFrame(passed, cleaned) == passed

\* lines 17-29; a row is a function of the frame's columns
CleanSpotifyData(frame) ==
    LET has(c) == c \in frame.columns
        columns == frame.columns \cup (IF has("popularity") THEN {"popularity_norm"} ELSE {})
        clean(r) ==
            [c \in columns |->
                IF c = "release_date" THEN ToDatetime(r[c])
                ELSE IF c \in {"genre", "artist"} THEN FillNa(r[c])
                ELSE IF c = "popularity_norm" THEN SeriesDiv(r["popularity"], 100)
                ELSE r[c]]
    IN [columns |-> columns,
        rows |-> [i \in DOMAIN frame.rows |-> clean(frame.rows[i])]]

\* max_views, max_likes (lines 51, 55)
MaxOrOne(frame, name) ==
    IF frame.rows = <<>> THEN 1 ELSE SeriesMax(Column(frame, name)).num

\* lines 41-58
CleanYoutubeData(frame) ==
    LET has(c) == c \in frame.columns
        columns == frame.columns
                   \cup (IF has("view_count") THEN {"view_count_norm"} ELSE {})
                   \cup (IF has("like_count") THEN {"like_count_norm"} ELSE {})
        clean(r) ==
            [c \in columns |->
                IF c = "published_at" THEN ToDatetime(r[c])
                ELSE IF c \in {"title", "channel_title"} THEN FillNa(r[c])
                ELSE IF c = "view_count_norm"
                     THEN SeriesDiv(r["view_count"], MaxOrOne(frame, "view_count"))
                ELSE IF c = "like_count_norm"
                     THEN SeriesDiv(r["like_count"], MaxOrOne(frame, "like_count"))
                ELSE r[c]]
    IN [columns |-> columns,
        rows |-> [i \in DOMAIN frame.rows |-> clean(frame.rows[i])]]

\* the frames passed: all the columns or all but one, up to MaxCleanRows rows
FramesOver(all_columns, row_values) ==
    {[columns |-> cs, rows |-> [i \in DOMAIN rs |-> [c \in cs |-> rs[i][c]]]] :
        cs \in {all_columns} \cup {all_columns \ {c} : c \in all_columns},
        rs \in UNION {[1..n -> row_values] : n \in 0..MaxCleanRows}}
SpotifyFrames ==
    FramesOver({"release_date", "genre", "artist", "popularity"},
               [release_date : {"2023-01-01"}, genre : {NA, "pop"},
                artist : {NA, "Artist 1"}, popularity : {Num(0, 1), Num(80, 1), NaN}])
YoutubeFrames ==
    FramesOver({"published_at", "title", "channel_title", "view_count", "like_count"},
               [published_at : {"2023-01-01T00:00:00Z"}, title : {NA, "Video 1"},
                channel_title : {NA, "Channel 1"},
                view_count : {Num(0, 1), Num(1000, 1), Num(2000, 1)},
                like_count : {Num(0, 1), Num(200, 1)}])

othersCl == <<preVars, msVars, forecast_steps, apVars, ppVars, mtVars, cmVars,
              df_columns, ftVars, dsVars, genVars, hpVars>>

InitClean ==
    /\ df_columns = RequiredColumns
    /\ PreIdle /\ MsIdle /\ FcIdle /\ EvIdle /\ GenIdle /\ HpIdle /\ FtIdle /\ DsIdle
    /\ \/ cl_fn = "clean_spotify_data" /\ cl_input \in SpotifyFrames
       \/ cl_fn = "clean_youtube_data" /\ cl_input \in YoutubeFrames
    /\ cl_df = cl_input
    /\ cl_pc = "call"
    /\ cl_result = NoFrame

CallCleanSpotifyData ==
    /\ cl_pc = "call"
    /\ cl_fn = "clean_spotify_data"
    /\ cl_result' = CleanSpotifyData(cl_df)
    /\ cl_df' = CallerFrame(cl_df, CleanSpotifyData(cl_df))
    /\ cl_pc' = "returned"
    /\ UNCHANGED <<cl_fn, cl_input, othersCl>>

CallCleanYoutubeData ==
    /\ cl_pc = "call"
    /\ cl_fn = "clean_youtube_data"
    /\ cl_result' = CleanYoutubeData(cl_df)
    /\ cl_df' = CallerFrame(cl_df, CleanYoutubeData(cl_df))
    /\ cl_pc' = "returned"
    /\ UNCHANGED <<cl_fn, cl_input, othersCl>>

NextClean == CallCleanSpotifyData \/ CallCleanYoutubeData

SpecClean == InitClean /\ [][NextClean]_vars

(* ------------- data/fetch_spotify.py, data/fetch_youtube.py ---------------- *)

SearchLimit == 5
MaxPerPlaylist == 10
MaxResultsCap == 50

\* the exceptions the clients and the reading of a response raise; each is a
\* subclass of Exception
ExceptionClasses == {"HttpError", "SpotifyException", "KeyError", "ValueError"}

\* a handler that has the clause `except HttpError` only
CaughtHttpErrorOnly(exc) == exc = "HttpError"

\* `except Exception` (in the YouTube methods after `except HttpError`)
Caught(exc) == exc \in ExceptionClasses

\* what a body comes to: a returned value or a raised exception, with the
\* requests it has sent
Return(kind, value, requests) ==
    [kind |-> kind, value |-> value, exc |-> "", requests |-> requests]
Raise(exc, requests) ==
    [kind |-> "raise", value |-> <<>>, exc |-> exc, requests |-> requests]

\* try: body / except ...: return the empty result
TryExcept(body, empty_kind) ==
    IF body.kind = "raise" /\ Caught(body.exc)
    THEN Return(empty_kind, <<>>, body.requests)
    ELSE body

\* __init__ of either fetcher: the client, or None when its construction raised
FetcherInit(construction) == IF construction = "raise" THEN "None" ELSE "client"

\* a test that takes every client field for a client
NoClientUnchecked(client) == FALSE

\* `not self.sp`, `not self.youtube`: the first statement of every method
NoClient(client) == client = "None"

\* a limit per playlist without the cap
PerPlaylistUncapped(limit) == limit \div 5

\* min(limit//5, 10) (fetch_spotify.py lines 55, 140)
PerPlaylist(limit) == Min({limit \div 5, MaxPerPlaylist})

\* the playlists a method reads: every one that is not null (line 53), those
\* with 'Top' in the name for the trending tracks (line 138)
Selected(method, playlist) ==
    IF method = "get_trending_tracks" THEN playlist = "Top 50" ELSE playlist # "null"

\* lines 61-74, 146-156, without the fields of the album and the urls; the
\* trending tracks carry no genre and no release date
TrackData(method, genre, market, id) ==
    IF method = "get_trending_tracks"
    THEN [platform |-> "spotify", track_id |-> id, track_name |-> "Track",
          artist |-> "Artist", popularity |-> Num(80, 1), market |-> market,
          fetched_at |-> 0]
    ELSE [platform |-> "spotify", track_id |-> id, track_name |-> "Track",
          artist |-> "Artist", genre |-> genre, popularity |-> Num(80, 1),
          release_date |-> "2023-01-01", market |-> market, fetched_at |-> 0]

\* the tracks of the items that playlist p answers to a request for n items:
\* n items, the first of them null in the answer "nulls" (lines 58-59)
PlaylistTracks(method, genre, market, p, n, api) ==
    LET first == IF api.tracks = "nulls" THEN 2 ELSE 1
    IN [i \in 1..(IF n < first THEN 0 ELSE n - first + 1) |->
            TrackData(method, genre, market, <<p, i + first - 1>>)]

\* lines 52-75, 137-157 from playlist p on
RECURSIVE FetchPlaylists(_, _, _, _, _, _)
FetchPlaylists(method, genre, market, p, n, api) ==
    IF p > Len(api.playlists) THEN Return("list", <<>>, <<>>)
    ELSE IF ~Selected(method, api.playlists[p])
         THEN FetchPlaylists(method, genre, market, p + 1, n, api)
    ELSE LET request == [endpoint |-> "playlist_tracks", limit |-> n]
             rest == FetchPlaylists(method, genre, market, p + 1, n, api)
         IN IF api.tracks = "raise" THEN Raise("SpotifyException", <<request>>)
            ELSE IF api.tracks = "malformed" THEN Raise("KeyError", <<request>>)
            ELSE IF rest.kind = "raise" THEN Raise(rest.exc, <<request>> \o rest.requests)
            ELSE Return("list",
                        PlaylistTracks(method, genre, market, p, n, api) \o rest.value,
                        <<request>> \o rest.requests)

\* get_top_tracks_by_genre (lines 43-81) and get_trending_tracks (129-163)
GetTracks(sp, method, genre, limit, market, api) ==
    IF NoClient(sp) THEN Return("list", <<>>, <<>>)
    ELSE LET search == [endpoint |-> "search", limit |-> SearchLimit]
             n == PerPlaylist(limit)
             fetched == FetchPlaylists(method, genre, market, 1, n, api)
             body ==
                IF api.search = "raise" THEN Raise("SpotifyException", <<search>>)
                ELSE IF api.search = "malformed" THEN Raise("KeyError", <<search>>)
                ELSE IF fetched.kind = "raise"
                     THEN Raise(fetched.exc, <<search>> \o fetched.requests)
                ELSE Return("list", SliceTo(fetched.value, limit),
                            <<search>> \o fetched.requests)
         IN TryExcept(body, "list")

\* lines 94-116
GetArtistPopularity(sp, market, api) ==
    IF NoClient(sp) THEN Return("None", <<>>, <<>>)
    ELSE LET search == [endpoint |-> "search", limit |-> 1]
             body ==
                IF api.search = "raise" THEN Raise("SpotifyException", <<search>>)
                ELSE IF api.search = "malformed" THEN Raise("KeyError", <<search>>)
                ELSE IF api.search = "empty" THEN Return("None", <<>>, <<search>>)
                ELSE Return("dict",
                            <<[platform |-> "spotify", artist_id |-> "a1",
                               popularity |-> Num(80, 1), market |-> market,
                               fetched_at |-> 0]>>,
                            <<search>>)
         IN TryExcept(body, "None")

\* int(statistics.get(name, 0)) of an item: "plain" has the statistics,
\* "nostats" lacks them, "badstats" has one that is not a number
StatisticOf(item, value) ==
    IF item = "nostats" THEN Num(0, 1) ELSE Num(value, 1)

\* lines 58-75 for item i; an item "noid" has no 'id'
VideoData(item, i, region_code) ==
    [platform |-> "youtube", video_id |-> i, title |-> "Video",
     channel_title |-> "Channel", published_at |-> "2023-01-01T00:00:00Z",
     category_id |-> "10", view_count |-> StatisticOf(item, 1000 * i),
     like_count |-> StatisticOf(item, 100), region_code |-> region_code,
     fetched_at |-> 0]

\* the first n items of an answer: the API returns no more than it is asked for
Answered(items, n) == SliceTo(items, IF n < 0 THEN 0 ELSE n)

\* lines 38-85
GetTrendingVideos(youtube, region_code, max_results, api) ==
    IF NoClient(youtube) THEN Return("list", <<>>, <<>>)
    ELSE LET request == [endpoint |-> "videos.list",
                         limit |-> Min({max_results, MaxResultsCap})]
             items == Answered(api.items, request.limit)
             body ==
                IF api.list = "raise" THEN Raise("HttpError", <<request>>)
                ELSE IF \E i \in DOMAIN items : items[i] = "noid"
                     THEN Raise("KeyError", <<request>>)
                ELSE IF \E i \in DOMAIN items : items[i] = "badstats"
                     THEN Raise("ValueError", <<request>>)
                ELSE Return("list",
                            [i \in DOMAIN items |-> VideoData(items[i], i, region_code)],
                            <<request>>)
         IN TryExcept(body, "list")

\* the statistics the API holds for a video
ViewsOf(video_id) == IF video_id = "v1" THEN 10 ELSE 20

IsVideo(item) == item \in {"v1", "v2"}

\* zip(items, stats_items): the pairs at the same position, as many as the
\* shorter has
Zip(items, stats_items) ==
    [i \in 1..Min({Len(items), Len(stats_items)}) |-> <<items[i], stats_items[i]>>]

\* lines 133-148 for one pair; the statistics are those of stats_item
SearchVideoData(item, stats_item, region_code) ==
    [platform |-> "youtube", video_id |-> item, title |-> <<"title of", item>>,
     view_count |-> Num(ViewsOf(stats_item), 1), region_code |-> region_code,
     fetched_at |-> 0]

\* lines 101-160; an item is the id of a video or "c1", a channel
SearchVideos(youtube, max_results, region_code, api) ==
    IF NoClient(youtube) THEN Return("list", <<>>, <<>>)
    ELSE LET request == [endpoint |-> "search.list",
                         limit |-> Min({max_results, MaxResultsCap})]
             items == Answered(api.items, request.limit)
             video_ids == SelectSeq(items, IsVideo)
             stats_request == [endpoint |-> "videos.list", limit |-> Len(video_ids)]
             stats_items == SelectSeq(api.stats, LAMBDA id :
                                \E i \in DOMAIN video_ids : video_ids[i] = id)
             pairs == Zip(items, stats_items)
             body ==
                IF api.list = "raise" THEN Raise("HttpError", <<request>>)
                ELSE IF video_ids = <<>> THEN Return("list", <<>>, <<request>>)
                ELSE IF api.statslist = "raise"
                     THEN Raise("HttpError", <<request, stats_request>>)
                ELSE IF \E i \in DOMAIN pairs : ~IsVideo(pairs[i][1])
                     THEN Raise("KeyError", <<request, stats_request>>)
                ELSE Return("list",
                            [i \in DOMAIN pairs |->
                                SearchVideoData(pairs[i][1], pairs[i][2], region_code)],
                            <<request, stats_request>>)
         IN TryExcept(body, "list")

\* lines 172-206
GetChannelStats(youtube, api) ==
    IF NoClient(youtube) THEN Return("None", <<>>, <<>>)
    ELSE LET request == [endpoint |-> "channels.list", limit |-> 1]
             body ==
                IF api.list = "raise" THEN Raise("HttpError", <<request>>)
                ELSE IF api.items = <<>> THEN Return("None", <<>>, <<request>>)
                ELSE IF api.items[1] = "badstats" THEN Raise("ValueError", <<request>>)
                ELSE Return("dict",
                            <<[platform |-> "youtube", channel_id |-> "ch",
                               subscriber_count |-> StatisticOf(api.items[1], 5),
                               fetched_at |-> 0]>>,
                            <<request>>)
         IN TryExcept(body, "None")

\* the answers of the Spotify API: the search raises, lacks 'playlists' or
\* finds up to SearchLimit playlists, and each request for a playlist's
\* tracks raises, lacks a field, or has as many items as were asked for
PlaylistLists ==
    UNION {[1..n -> {"null", "Top 50", "Other"}] : n \in 0..2}
    \cup {[p \in 1..SearchLimit |-> "Top 50"], [p \in 1..SearchLimit |-> "Other"],
          <<"Top 50", "null", "Other", "Top 50", "Top 50">>}
SpotifyApis ==
    {[search |-> s, playlists |-> <<>>, tracks |-> "full"] :
        s \in {"raise", "malformed", "empty"}}
    \cup [search : {"ok"}, playlists : PlaylistLists,
          tracks : {"raise", "malformed", "full", "nulls"}]

\* the answers of the YouTube API to a list request
ItemLists == UNION {[1..n -> {"plain", "nostats", "badstats", "noid"}] : n \in 0..2}
YoutubeApis ==
    {[list |-> "raise", items |-> <<>>]} \cup [list : {"ok"}, items : ItemLists]

\* the answers to a search and to the request for the statistics that
\* follows it: the statistics of any of the videos, in any order
SearchItemLists == UNION {[1..n -> {"v1", "v2", "c1"}] : n \in 0..2}
StatsLists == {<<>>, <<"v1">>, <<"v2">>, <<"v1", "v2">>, <<"v2", "v1">>}
SearchApis ==
    {[list |-> "raise", items |-> <<>>, statslist |-> "ok", stats |-> <<>>]}
    \cup [list : {"ok"}, items : SearchItemLists, statslist : {"raise"}, stats : {<<>>}]
    \cup [list : {"ok"}, items : SearchItemLists, statslist : {"ok"}, stats : StatsLists]

LimitVals == {0, 4, 5, 12, 50, 60}
Regions == {"US"}

othersFt == <<preVars, msVars, forecast_steps, apVars, ppVars, mtVars, cmVars,
              df_columns, clVars, genVars, hpVars>>

\* spotify_fetcher = SpotifyDataFetcher() (fetch_spotify.py lines 16-28, 166)
SpotifyDataFetcherInit ==
    /\ ft_sp = "unset"
    /\ \E construction \in {"ok", "raise"} : ft_sp' = FetcherInit(construction)
    /\ ft_pc' = IF ft_youtube = "unset" THEN "new" ELSE "ready"
    /\ UNCHANGED <<ft_youtube, ft_call, ft_api, ft_requests, ft_result, dsVars, othersFt>>

\* youtube_fetcher = YouTubeDataFetcher() (fetch_youtube.py lines 16-23, 209)
YouTubeDataFetcherInit ==
    /\ ft_youtube = "unset"
    /\ \E construction \in {"ok", "raise"} : ft_youtube' = FetcherInit(construction)
    /\ ft_pc' = IF ft_sp = "unset" THEN "new" ELSE "ready"
    /\ UNCHANGED <<ft_sp, ft_call, ft_api, ft_requests, ft_result, dsVars, othersFt>>

\* a call of a method with the API answering as api
Called(method, limit, api, outcome) ==
    /\ ft_call' = [method |-> method, limit |-> limit]
    /\ ft_api' = api
    /\ ft_requests' = outcome.requests
    /\ ft_result' = [kind |-> outcome.kind, value |-> outcome.value, exc |-> outcome.exc]
    /\ ft_pc' = "returned"
    /\ UNCHANGED <<ft_sp, ft_youtube, dsVars, othersFt>>

CallGetTopTracksByGenre ==
    /\ ft_pc = "ready"
    /\ ds_pc = "idle"
    /\ \E genre \in {"pop", "rock"}, limit \in LimitVals, api \in SpotifyApis :
            Called("get_top_tracks_by_genre", limit, api,
                   GetTracks(ft_sp, "get_top_tracks_by_genre", genre, limit, "US", api))


CallGetTrendingTracks ==
    /\ ft_pc = "ready"
    /\ ds_pc = "idle"
    /\ \E limit \in LimitVals, api \in SpotifyApis :
            Called("get_trending_tracks", limit, api,
                   GetTracks(ft_sp, "get_trending_tracks", "", limit, "US", api))


CallGetArtistPopularity ==
    /\ ft_pc = "ready"
    /\ ds_pc = "idle"
    /\ \E api \in SpotifyApis :
            Called("get_artist_popularity", 1, api, GetArtistPopularity(ft_sp, "US", api))


CallGetTrendingVideos ==
    /\ ft_pc = "ready"
    /\ ds_pc = "idle"
    /\ \E max_results \in LimitVals, api \in YoutubeApis :
            Called("get_trending_videos", max_results, api,
                   GetTrendingVideos(ft_youtube, "US", max_results, api))


CallSearchVideos ==
    /\ ft_pc = "ready"
    /\ ds_pc = "idle"
    /\ \E max_results \in LimitVals, api \in SearchApis :
            Called("search_videos", max_results, api,
                   SearchVideos(ft_youtube, max_results, "US", api))


CallGetChannelStats ==
    /\ ft_pc = "ready"
    /\ ds_pc = "idle"
    /\ \E api \in YoutubeApis :
            Called("get_channel_stats", 1, api, GetChannelStats(ft_youtube, api))


(* ------------- dashboard/callbacks.py, utils/helpers.py (merge) ------------ *)

\* pd.DataFrame(records) if records else pd.DataFrame()
DataFrameOf(records) ==
    IF records = <<>> THEN NoFrame
    ELSE [columns |-> UNION {DOMAIN records[i] : i \in DOMAIN records},
          rows |-> records]

\* helpers.py lines 109-121
SpotifyCols ==
    [track_name |-> "content_title", artist |-> "creator",
     popularity |-> "engagement_score", genre |-> "category"]
YoutubeCols ==
    [title |-> "content_title", channel_title |-> "creator",
     view_count |-> "engagement_score", category_id |-> "category"]
CommonCols ==
    {"content_title", "creator", "engagement_score", "category", "platform", "fetched_at"}

\* frame.rename(columns=cols)
Rename(frame, cols) ==
    LET to(c) == IF c \in DOMAIN cols THEN cols[c] ELSE c
        from(n) == CHOOSE c \in frame.columns : to(c) = n
        columns == {to(c) : c \in frame.columns}
    IN [columns |-> columns,
        rows |-> [i \in DOMAIN frame.rows |->
                    [n \in columns |-> frame.rows[i][from(n)]]]]

\* frame[name] = value
WithColumn(frame, name, value) ==
    LET columns == frame.columns \cup {name}
    IN [columns |-> columns,
        rows |-> [i \in DOMAIN frame.rows |->
                    [c \in columns |-> IF c = name THEN value ELSE frame.rows[i][c]]]]

\* frame[names]: KeyError when the frame lacks one of the names
Select(frame, names) ==
    IF ~(names \subseteq frame.columns) THEN [kind |-> "raise", frame |-> NoFrame]
    ELSE [kind |-> "ok",
          frame |-> [columns |-> names,
                     rows |-> [i \in DOMAIN frame.rows |->
                                 [c \in names |-> frame.rows[i][c]]]]]

\* helpers.py lines 123-139
MergePlatformData(spotify_df, youtube_df) ==
    LET spotify_merged == WithColumn(Rename(spotify_df, SpotifyCols), "platform", "Spotify")
        youtube_merged == WithColumn(Rename(youtube_df, YoutubeCols), "platform", "YouTube")
        spotify_common == Select(spotify_merged, CommonCols)
        youtube_common == Select(youtube_merged, CommonCols)
    IN IF spotify_common.kind = "raise" \/ youtube_common.kind = "raise"
       THEN [kind |-> "raise", frame |-> NoFrame]
       ELSE [kind |-> "ok",
             frame |-> [columns |-> spotify_common.frame.columns
                                    \cup youtube_common.frame.columns,
                        rows |-> spotify_common.frame.rows \o youtube_common.frame.rows]]

\* str.lower() of the names the stores and the filters hold
Lower(s) ==
    IF s = "Pop" THEN "pop" ELSE IF s = "Rock" THEN "rock"
    ELSE IF s = "Music" THEN "music" ELSE s

\* time_range.replace('D', '') and int(...) of it (callbacks.py line 80)
DaysOf(time_range) ==
    LET digits == SelectSeq(time_range, LAMBDA c : c # "D")
    IN IF digits # <<>> /\ \A i \in DOMAIN digits : IsDigit(digits[i])
       THEN [kind |-> "int", value |-> IntOfDigits(digits, 1, Len(digits))]
       ELSE [kind |-> "raise", value |-> 0]

\* callbacks.py lines 53-85; elapsed is the number of days from the fetch
\* to the call
ProcessData(spotify_data, youtube_data, platform, genre, time_range, elapsed) ==
    LET spotify_raw == DataFrameOf(spotify_data)
        youtube_raw == DataFrameOf(youtube_data)
        spotify_df == IF spotify_raw.rows # <<>> THEN CleanSpotifyData(spotify_raw)
                      ELSE spotify_raw
        youtube_df == IF youtube_raw.rows # <<>> THEN CleanYoutubeData(youtube_raw)
                      ELSE youtube_raw
        merged == MergePlatformData(spotify_df, youtube_df)
        combined_df == IF platform = "spotify" THEN spotify_df
                       ELSE IF platform = "youtube" THEN youtube_df
                       ELSE merged.frame
        by_genre ==
            IF genre # "all" /\ "category" \in combined_df.columns
            THEN SelectSeq(combined_df.rows,
                           LAMBDA r : Lower(r["category"]) = Lower(genre))
            ELSE combined_df.rows
        timed == time_range # <<"a", "l", "l">> /\ "fetched_at" \in combined_df.columns
        days == DaysOf(time_range)
    IN IF platform \notin {"spotify", "youtube"} /\ merged.kind = "raise"
       THEN [kind |-> "raise", value |-> <<>>, exc |-> "KeyError"]
       ELSE IF combined_df.rows = <<>> THEN [kind |-> "list", value |-> <<>>, exc |-> ""]
       ELSE IF timed /\ days.kind = "raise"
            THEN [kind |-> "raise", value |-> <<>>, exc |-> "ValueError"]
       ELSE [kind |-> "list",
             value |-> IF timed
                       THEN SelectSeq(by_genre,
                                LAMBDA r : r["fetched_at"] >= elapsed - days.value)
                       ELSE by_genre,
             exc |-> ""]

\* the values of the filters (layout.py lines 30-87)
Platforms == {"all", "spotify", "youtube"}
GenreFilters == {"all", "pop", "rock", "hip-hop", "electronic", "music"}
TimeFilters == {<<"1", "D">>, <<"7", "D">>, <<"3", "0", "D">>, <<"9", "0", "D">>}
ElapsedDays == {0, 8}

\* callbacks.py lines 28-40: both fetches, then both stores
UpdateDataStores ==
    /\ ft_pc = "ready"
    /\ ds_pc = "idle"
    /\ \E region \in Regions, spotify_api \in SpotifyApis, youtube_api \in YoutubeApis :
          LET tracks == GetTracks(ft_sp, "get_trending_tracks", "", 50, region, spotify_api)
              videos == GetTrendingVideos(ft_youtube, region, 50, youtube_api)
          IN IF tracks.kind = "raise"
             THEN /\ ds_pc' = "update raised"
                  /\ ft_requests' = tracks.requests
                  /\ UNCHANGED <<ds_spotify, ds_youtube>>
             ELSE IF videos.kind = "raise"
             THEN /\ ds_pc' = "update raised"
                  /\ ft_requests' = tracks.requests \o videos.requests
                  /\ UNCHANGED <<ds_spotify, ds_youtube>>
             ELSE /\ ds_pc' = "stored"
                  /\ ft_requests' = tracks.requests \o videos.requests
                  /\ ds_spotify' = DataFrameOf(tracks.value).rows
                  /\ ds_youtube' = DataFrameOf(videos.value).rows
    /\ UNCHANGED <<ft_sp, ft_youtube, ft_pc, ft_call, ft_api, ft_result,
                   ds_filters, ds_processed, othersFt>>

\* callbacks.py lines 50-85, on the stores as they were written
CallProcessData ==
    /\ ds_pc = "stored"
    /\ \E platform \in Platforms, genre \in GenreFilters,
          time_range \in TimeFilters, elapsed \in ElapsedDays :
          LET outcome == ProcessData(ds_spotify, ds_youtube, platform, genre,
                                     time_range, elapsed)
          IN /\ ds_filters' = <<platform, genre, time_range, elapsed>>
             /\ ds_processed' = outcome.value
             /\ ds_pc' = IF outcome.kind = "raise" THEN "process raised" ELSE "processed"
    /\ UNCHANGED <<ds_spotify, ds_youtube, ftVars, othersFt>>

InitDash ==
    /\ df_columns = RequiredColumns
    /\ PreIdle /\ MsIdle /\ FcIdle /\ EvIdle /\ GenIdle /\ HpIdle /\ ClIdle
    /\ FtIdle /\ DsIdle

\* the fetchers and the refresh of the stores
NextFetch ==
    \/ SpotifyDataFetcherInit
    \/ YouTubeDataFetcherInit
    \/ CallGetTopTracksByGenre
    \/ CallGetTrendingTracks
    \/ CallGetArtistPopularity
    \/ CallGetTrendingVideos
    \/ CallSearchVideos
    \/ CallGetChannelStats
    \/ UpdateDataStores

SpecFetch == InitDash /\ [][NextFetch]_vars

\* the dashboard: the stores are refreshed and then processed
NextDash ==
    \/ SpotifyDataFetcherInit
    \/ YouTubeDataFetcherInit
    \/ UpdateDataStores
    \/ CallProcessData

SpecDash == InitDash /\ [][NextDash]_vars

(* ------------------------------- claims -------------------------------- *)

\* C1: for every entity in the result of preprocess_data, the length of its
\* training part plus the length of its test part is the length of its
\* monthly-resampled series, for every test_size >= 0.
C1_SplitLengths ==
    \A name \in DOMAIN train_data :
        /\ name \in DOMAIN test_data
        /\ Len(train_data[name]) + Len(test_data[name]) = Len(Resampled(df, name))

C1_Witness ==
    /\ pre_pc = "returned"
    /\ test_size > 0
    /\ \E name \in DOMAIN train_data :
          /\ Len(train_data[name]) > 0
          /\ Len(test_data[name]) = test_size

\* the last k points of s, and the points before them
LastPoints(s, k) == SubSeq(s, Len(s) - (IF k > Len(s) THEN Len(s) ELSE k) + 1, Len(s))
AllButLast(s, k) == SubSeq(s, 1, Len(s) - (IF k > Len(s) THEN Len(s) ELSE k))

\* C2: the test part is exactly the last K points of the resampled series and
\* the training part exactly the points before them, also for K = 0 (test
\* empty, train the whole series).
C2_SplitIsPrefixSuffix ==
    \A name \in DOMAIN train_data :
        /\ test_data[name] = LastPoints(Resampled(df, name), test_size)
        /\ train_data[name] = AllButLast(Resampled(df, name), test_size)

\* C3: the order d of make_stationary stays within 0..max_diff, and the loop
\* runs at most max_diff differencing steps: every call of the test but the
\* last is followed by one differencing, and there are at most max_diff + 1.
C3_OrderInRange ==
    /\ 0 <= ms_d /\ ms_d <= ms_max_diff
    /\ Len(ms_hist) <= ms_max_diff + 1
    /\ ms_pc = "returned" => Len(ms_hist) = ms_d + 1
    /\ ms_pc \in {"loop", "raised"} => Len(ms_hist) = ms_d

C3_Witness ==
    /\ ms_pc = "returned"
    /\ ms_max_diff >= 2
    /\ ms_d = ms_max_diff

\* C4 as stated: the i-th call of the test is followed by a differencing
\* exactly when it rejects the null of non-stationarity (p below the
\* threshold) and the order then, i - 1, is below max_diff.
C4_DifferenceWhileRejected ==
    \A i \in 1..Len(ms_hist) :
        (i <= ms_d) <=> (ms_hist[i] < Alpha /\ i - 1 < ms_max_diff)

\* C4 amended: the i-th call of the test is followed by a differencing
\* exactly when it does not reject the null of non-stationarity (p at or
\* above the threshold) and the order then, i - 1, is below max_diff; the
\* loop stops at the first call that rejects it or finds the order at max_diff.
C4_DifferenceWhileNotRejected ==
    \A i \in 1..Len(ms_hist) :
        (i <= ms_d) <=> (ms_hist[i] >= Alpha /\ i - 1 < ms_max_diff)

C4_Witness ==
    /\ ms_pc = "returned"
    /\ ms_d = 1
    /\ ms_max_diff >= 2
    /\ ms_hist[1] = Alpha
    /\ ms_hist[2] < Alpha

\* C5: make_stationary returns the input differenced exactly d times, d
\* points shorter than the input, and when d is below max_diff the last test,
\* the one of the returned series, found it stationary.
C5_ReturnsDifferencedSeries ==
    ms_pc = "returned" =>
        /\ ms_series = DiffN(ms_input, ms_d)
        /\ Len(ms_series) = Len(ms_input) - ms_d
        /\ ms_d < ms_max_diff => ms_hist[Len(ms_hist)] < Alpha

C5_Witness ==
    /\ ms_pc = "returned"
    /\ ms_d = 2
    /\ ms_d < ms_max_diff
    /\ Len(ms_input) = 3

\* C6: every ARIMA model is fitted to the entity's training series itself,
\* with order (1, d, 1), so that the differencings done by the pipeline
\* before the fit plus the model's integration order are exactly d.
C6_ArimaFitsTrainingSeries ==
    \A key \in DOMAIN arima_forecasts :
        \A i \in DOMAIN arima_forecasts[key] :
            LET model == arima_forecasts[key][i].model
                series == Sales(train_data[key])
                d == model.order[2]
            IN /\ model.order = <<1, d, 1>>
               /\ model.endog = series
               /\ (Len(series) - Len(model.endog)) + d = d

\* C7: a fit or forecast that raises for one entity is caught: the pipeline
\* never ends by raising, and once its loop is over every other entity has
\* its forecast.
C7_FitFailureIsCaught ==
    /\ ap_pc # "raised"
    /\ pp_pc # "raised"

Zero == Num(0, 1)

\* C10: for a non-empty y without a zero, calculate_mape(y, y) is 0 and
\* evaluate_forecast(y, y) reports MAE = 0, RMSE = 0 and MAPE = 0.
C10_MapeOfIdenticalIsZero ==
    (/\ mt_pc # "call"
     /\ mt_actual = mt_predicted
     /\ mt_actual # <<>>
     /\ \A i \in DOMAIN mt_actual : mt_actual[i] # 0)
    => /\ mt_pc = "returned"
       /\ mt_fn = "calculate_mape" => mt_result = Zero
       /\ mt_fn = "evaluate_forecast" =>
             mt_result = [MAE |-> Zero, RMSE |-> Zero, MAPE |-> Zero]

C10_Witness ==
    /\ mt_pc = "returned"
    /\ mt_fn = "evaluate_forecast"
    /\ mt_actual = mt_predicted
    /\ Len(mt_actual) = 2
    /\ mt_actual[1] = -1
    /\ mt_actual[2] = 2

RowKeys == {cm_results[i].Key : i \in DOMAIN cm_results}
InAllThree ==
    (DOMAIN arima_forecasts) \cap (DOMAIN prophet_forecasts) \cap (DOMAIN test_data)

\* C8: compare_models ends by returning, with exactly one row for each key
\* that is in all three dictionaries and no row for another key; a key that
\* prophet_forecasts or test_data lacks is passed over without an exception.
C8_OneRowPerCommonKey ==
    /\ cm_pc # "raised"
    /\ cm_pc = "returned" =>
          /\ RowKeys = InAllThree
          /\ \A i, j \in DOMAIN cm_results :
                cm_results[i].Key = cm_results[j].Key => i = j

\* C9: a test suffix and a forecast of different lengths are cut to the
\* shorter of the two, so that compare_models has metrics for the key and no
\* exception: it raises no ValueError for a key whose test suffix and
\* forecasts all have a point.
C9_LengthsAreMatched ==
    (cm_pc = "raised" /\ cm_error = "ValueError") =>
        \/ Len(Actual(cm_key)) = 0
        \/ Len(ArimaPred(cm_key)) = 0
        \/ Len(Yhat(prophet_forecasts[cm_key])) = 0

HasZeroActual == \E i \in DOMAIN mt_actual : mt_actual[i] = 0

\* C11: with a zero among the actual values, calculate_mape does not raise
\* and its result is NaN, whatever the prediction at the zero is (zero or
\* not).
C11_ZeroActualGivesNaN ==
    (/\ mt_pc # "call"
     /\ mt_fn = "calculate_mape"
     /\ Len(mt_actual) = Len(mt_predicted)
     /\ HasZeroActual)
    => /\ mt_pc = "returned"
       /\ mt_result = NaN

\* C12: every row generate_synthetic_sales_data has appended or returns has
\* sales >= 0, whatever the draws are, those that make the product of the
\* factors negative included.
C12_SalesNonNegative ==
    \A i \in DOMAIN gen_data : gen_data[i].sales >= 0

\* a returned table with a row whose product of factors was negative
C12_Witness ==
    /\ gen_pc = "returned"
    /\ \E i \in DOMAIN gen_data :
          /\ gen_data[i].product_id = gen_product_id
          /\ gen_data[i].sales = 0
          /\ \E noise \in NoiseVals :
                RawSales(gen_params, gen_data[i].date, noise,
                         gen_data[i].promotion_flag) < 0

\* C14: preprocess_data raises when the resampled series of some group has
\* fewer rows than test_size: it never returns a result in which that group
\* has an empty training series.
C14_ShortGroupRaises ==
    \A name \in GroupKeys(df) :
        Len(Resampled(df, name)) < test_size =>
            /\ pre_pc # "returned"
            /\ name \in DOMAIN train_data => train_data[name] # <<>>

NoFitStarted ==
    /\ ap_pc \in {"idle", "start"} \/ (ap_pc \in {"loop", "returned"} /\ ap_key = 0)
    /\ ms_pc = "idle"
    /\ arima_forecasts = EmptyDict
    /\ prophet_forecasts = EmptyDict

\* C13: for a table that lacks the date, the product_id or the sales column
\* the run fails before any fit: preprocess_data does not return, and no
\* entity is given to the ARIMA or the Prophet fit.
C13_MissingColumnFailsBeforeFit ==
    df_columns # RequiredColumns =>
        /\ pre_pc # "returned"
        /\ NoFitStarted

\* the rows of a Prophet forecast dated after the last training point
ProjectedRows(key) ==
    {i \in DOMAIN prophet_forecasts[key] :
        prophet_forecasts[key][i].ds > Len(train_data[key])}

NonNegative(m) == (m.kind \in {"num", "sqrt"} /\ m.num >= 0) \/ m.kind = "inf"

\* a MAPE is not a number only if an actual of the key's test period is zero
NonNegativeMape(m, key) ==
    \/ NonNegative(m)
    \/ m.kind = "nan" /\ \E i \in DOMAIN test_data[key] : test_data[key][i].sales = 0

\* C15: end to end for one entity with 48 monthly points and the test horizon
\* 12 (training length 36): the ARIMA forecast has exactly 12 values, the
\* Prophet forecast has exactly 12 rows after the training period, and
\* compare_models returns exactly one row whose MAE, RMSE and MAPE of both
\* models are non-negative, a MAPE being NaN only if an actual of the test
\* period is zero.
C15_EndToEnd ==
    df \in LongTables =>
        /\ pre_pc = "returned" =>
              /\ Len(train_data[1]) = DefaultMonths - DefaultTestSize
              /\ Len(test_data[1]) = DefaultTestSize
        /\ ap_pc = "returned" => Len(arima_forecasts[1]) = 12
        /\ pp_pc = "returned" => Cardinality(ProjectedRows(1)) = 12
        /\ cm_pc = "returned" =>
              /\ Len(cm_results) = 1
              /\ LET row == cm_results[1]
                 IN /\ row.Key = 1
                    /\ NonNegative(row.ARIMA_MAE)
                    /\ NonNegative(row.ARIMA_RMSE)
                    /\ NonNegativeMape(row.ARIMA_MAPE, 1)
                    /\ NonNegative(row.Prophet_MAE)
                    /\ NonNegative(row.Prophet_RMSE)
                    /\ NonNegativeMape(row.Prophet_MAPE, 1)

C15_Witness ==
    /\ df = LongTable(DefaultMonths, DefaultMonths)
    /\ cm_pc = "returned"
    /\ Len(cm_results) = 1
    /\ cm_results[1].ARIMA_MAPE.kind = "nan"
    /\ cm_results[1].Prophet_MAPE.kind = "inf"
    /\ cm_results[1].Prophet_MAE.num > 0

\* C16: when arima_pipeline returns (no fit has raised), its dictionary has
\* exactly the keys of train_data_dict, and each forecast has exactly
\* forecast_steps values, whatever differencing order was chosen.
C16_ForecastPerKey ==
    ap_pc = "returned" =>
        /\ DOMAIN arima_forecasts = DOMAIN train_data
        /\ \A key \in DOMAIN arima_forecasts :
              Len(arima_forecasts[key]) = forecast_steps

\* two entities, one forecast from a differenced series
C16_Witness ==
    /\ ap_pc = "returned"
    /\ DOMAIN train_data = {1, 2}
    /\ forecast_steps = 2
    /\ arima_forecasts[1][1].model.order[2] = 0
    /\ arima_forecasts[2][1].model.order[2] = 2

\* the dates of the training frame of a key
TrainDates(key) == [i \in DOMAIN train_data[key] |-> train_data[key][i].date]

\* C17: a Prophet forecast has len(train) + H rows: the first len(train) are
\* dated as the training points, the last H are the H periods after the last
\* training point in order, and these are the rows the slice of compare_models
\* takes, position by position.
C17_ProphetCoversTrainPlusHorizon ==
    \A key \in DOMAIN prophet_forecasts :
        LET forecast == prophet_forecasts[key]
            n == Len(train_data[key])
            H == forecast_steps
            taken == ProphetSlice(Yhat(forecast), H)
        IN /\ Len(forecast) = n + H
           /\ \A i \in 1..n : forecast[i].ds = TrainDates(key)[i]
           /\ n > 0 => \A j \in 1..H : forecast[n + j].ds = TrainDates(key)[n] + j
           /\ Len(taken) = H
           /\ \A j \in 1..H : taken[j] = forecast[n + j].yhat

C17_Witness ==
    /\ pp_pc = "returned"
    /\ forecast_steps = 2
    /\ 1 \in DOMAIN prophet_forecasts
    /\ Len(train_data[1]) = 3
    /\ Len(prophet_forecasts[1]) = 5
    /\ prophet_forecasts[1][5].ds = 5

\* what the ARIMA forecast of a key is when d differences were taken: a term
\* over the key's own training series
OwnArimaForecast(key, d) ==
    ArimaForecast(ArimaModel(DiffN(Sales(train_data[key]), d), ArimaOrder(d)),
                  forecast_steps)

C18_OneEntityAtATime ==
    \* the only stationarity loop under way is that of the current entity
    /\ ms_pc # "idle" =>
          /\ ap_pc = "stationary"
          /\ ap_key \in DOMAIN train_data
          /\ ap_key \notin DOMAIN arima_forecasts
          /\ ms_input = Sales(train_data[ap_key])
    \* the entities done, the current one and those to come are apart
    /\ (DOMAIN arima_forecasts) \cap ap_todo = {}
    /\ ap_key \notin ap_todo
    /\ (DOMAIN prophet_forecasts) \cap pp_todo = {}
    \* every forecast is a function of its own entity's training series
    /\ \A key \in DOMAIN arima_forecasts :
          \E d \in 0..DefaultMaxDiff : arima_forecasts[key] = OwnArimaForecast(key, d)
    /\ \A key \in DOMAIN prophet_forecasts :
          prophet_forecasts[key] =
              ProphetForecast(ProphetModel(train_data[key]), forecast_steps)

C18_StepOfOneEntity ==
    \* a forecast once stored is not written again
    /\ \A key \in DOMAIN arima_forecasts :
          ap_pc # "start" =>
              /\ key \in DOMAIN arima_forecasts'
              /\ arima_forecasts'[key] = arima_forecasts[key]
    /\ \A key \in DOMAIN prophet_forecasts :
          /\ key \in DOMAIN prophet_forecasts'
          /\ prophet_forecasts'[key] = prophet_forecasts[key]
    \* a step stores at most one forecast, that of the entity it works on
    /\ Cardinality(DOMAIN arima_forecasts') <= Cardinality(DOMAIN arima_forecasts) + 1
    /\ Cardinality(DOMAIN prophet_forecasts') <= Cardinality(DOMAIN prophet_forecasts) + 1
    /\ (DOMAIN arima_forecasts') \ (DOMAIN arima_forecasts) \subseteq {ap_key}
    \* the next entity begins when the one before has its forecast
    /\ (ap_key' # ap_key /\ ap_key # 0) =>
          /\ ms_pc = "idle"
          /\ ap_key \in DOMAIN arima_forecasts
    \* the training series are read only
    /\ train_data' = train_data

\* C18: the entities are processed strictly one after another: the
\* stationarity loop, the fit and the forecast of one entity are over before
\* the next begins, a step reads and writes the state of one entity only,
\* and every forecast depends on its own entity's training series only.
C18_Sequential == [](C18_OneEntityAtATime) /\ [][C18_StepOfOneEntity]_vars

C18_Witness ==
    /\ pp_pc = "returned"
    /\ DOMAIN arima_forecasts = {1, 2}
    /\ DOMAIN prophet_forecasts = {1, 2}
    /\ train_data[1] # train_data[2]
    /\ Len(train_data[1]) = 3
    /\ arima_forecasts[1] = OwnArimaForecast(1, 1)
    /\ arima_forecasts[2] = OwnArimaForecast(2, 0)

\* the string is num / unit to the nearest tenth, followed by the suffix
ShowsOneDecimal(r, num, unit, suffix) ==
    LET D == num.den * (unit \div 10)
        tenths == 10 * r.whole + r.decimals[1]
    IN /\ r.suffix = suffix
       /\ Len(r.decimals) = 1
       /\ r.decimals[1] \in 0..9
       /\ 2 * Abs(tenths * D - num.num) <= D

\* C19: format_number picks the suffix by magnitude: 'B' and num / 10^9 for
\* num >= 10^9, 'M' and num / 10^6 for 10^6 <= num < 10^9, 'K' and num / 10^3
\* for 10^3 <= num < 10^6, each with one decimal, and the plain integer part
\* without a suffix for num < 10^3; 1500 gives '1.5K', 2500000 '2.5M',
\* 1000000000 '1.0B' and 500 '500'.
C19_FormatNumberSuffix ==
    (hp_pc = "returned" /\ hp_fn = "format_number") =>
        LET num == hp_args[1]
            r == hp_result
            n == num.num
            d == num.den
        IN /\ n >= 1000000000 * d => ShowsOneDecimal(r, num, 1000000000, "B")
           /\ (n >= 1000000 * d /\ n < 1000000000 * d) =>
                 ShowsOneDecimal(r, num, 1000000, "M")
           /\ (n >= 1000 * d /\ n < 1000000 * d) =>
                 ShowsOneDecimal(r, num, 1000, "K")
           /\ n < 1000 * d =>
                 /\ r.suffix = ""
                 /\ r.decimals = <<>>
                 /\ r.whole = (IF n < 0 THEN -((-n) \div d) ELSE n \div d)
           /\ num = Num(1500, 1) => r = FormattedNumber(1, <<5>>, "K")
           /\ num = Num(2500000, 1) => r = FormattedNumber(2, <<5>>, "M")
           /\ num = Num(1000000000, 1) => r = FormattedNumber(1, <<0>>, "B")
           /\ num = Num(500, 1) => r = FormattedNumber(500, <<>>, "")

C19_Witness ==
    /\ hp_pc = "returned"
    /\ hp_fn = "format_number"
    /\ hp_args[1] = Num(1000000000, 1)
    /\ hp_result = FormattedNumber(1, <<0>>, "B")

\* C20: calculate_engagement_rate returns 0.0 whenever views is 0, and
\* likes / views * 100 otherwise, which is 0.0 when likes is 0; the tests'
\* (100, 1000) gives 10.0.
C20_EngagementRate ==
    (hp_pc = "returned" /\ hp_fn = "calculate_engagement_rate") =>
        LET likes == hp_args[1]
            views == hp_args[2]
        IN /\ views = 0 => hp_result = Zero
           /\ views # 0 => hp_result = Num(likes * 100, views)
           /\ likes = 0 => hp_result = Zero
           /\ (likes = 100 /\ views = 1000) => hp_result = Num(10, 1)

C20_Witness ==
    /\ hp_pc = "returned"
    /\ hp_fn = "calculate_engagement_rate"
    /\ hp_args = <<50, 0>>
    /\ hp_result = Zero

\* the components of a string PT[<h>H][<m>M][<s>S], read from the left: the
\* number before each unit letter, 0 for a unit that is absent
RECURSIVE ReadComponents(_, _, _)
ReadComponents(s, i, acc) ==
    IF i > Len(s) THEN acc
    ELSE LET j == RunEnd(s, i)
             n == IntOfDigits(s, i, j)
         IN ReadComponents(s, j + 2, [acc EXCEPT ![s[j + 1]] = n])

\* C21: for a string PT[<h>H][<m>M][<s>S] parse_duration returns
\* hours * 3600 + minutes * 60 + seconds with 0 for an absent component, and
\* 0 for the empty string, None and every other non-string; 'PT4M13S' gives
\* 253, 'PT1H30M45S' 5445 and 'PT30S' 30.
C21_ParseDuration ==
    (hp_pc = "returned" /\ hp_fn = "parse_duration") =>
        LET duration == hp_args[1]
            s == duration.chars
            c == ReadComponents(s, 3, [u \in {"H", "M", "S"} |-> 0])
        IN /\ (duration.type = "str" /\ s \in DurationStrings) =>
                 hp_result = c["H"] * 3600 + c["M"] * 60 + c["S"]
           /\ (duration.type # "str" \/ s = <<>>) => hp_result = 0
           /\ s = <<"P", "T", "4", "M", "1", "3", "S">> => hp_result = 253
           /\ s = <<"P", "T", "1", "H", "3", "0", "M", "4", "5", "S">> =>
                 hp_result = 5445
           /\ s = <<"P", "T", "3", "0", "S">> => hp_result = 30

C21_Witness ==
    /\ hp_pc = "returned"
    /\ hp_fn = "parse_duration"
    /\ hp_args[1] = Str(<<"P", "T", "3", "4", "H", "0", "3", "S">>)
    /\ hp_result = 34 * 3600 + 3

\* the value of a column after fillna: 'Unknown' where it was missing, the
\* value itself elsewhere
Filled(column, i) ==
    column \in cl_input.columns =>
        cl_result.rows[i][column] =
            (IF cl_input.rows[i][column] = NA THEN "Unknown"
             ELSE cl_input.rows[i][column])

\* C22: clean_spotify_data returns a table in which every missing artist and
\* genre is 'Unknown' and every other value of these columns is as it was;
\* with a popularity column there is a popularity_norm column holding
\* popularity / 100 in every row (80 gives 0.8); the frame passed in is not
\* modified.
C22_CleanSpotify ==
    (cl_pc = "returned" /\ cl_fn = "clean_spotify_data") =>
        /\ Len(cl_result.rows) = Len(cl_input.rows)
        /\ \A i \in DOMAIN cl_input.rows :
              /\ Filled("artist", i)
              /\ Filled("genre", i)
              /\ "popularity" \in cl_input.columns =>
                    LET p == cl_input.rows[i].popularity
                        norm == cl_result.rows[i].popularity_norm
                    IN /\ p.kind = "num" => norm = Num(p.num, 100)
                       /\ p.kind = "nan" => norm = NaN
                       /\ p = Num(80, 1) => norm = Num(4, 5)
        /\ "popularity" \in cl_input.columns => "popularity_norm" \in cl_result.columns
        /\ cl_df = cl_input

C22_Witness ==
    /\ cl_pc = "returned"
    /\ cl_fn = "clean_spotify_data"
    /\ cl_input.columns = {"release_date", "genre", "artist", "popularity"}
    /\ Len(cl_input.rows) = 2
    /\ cl_input.rows[1].artist = "Artist 1"
    /\ cl_input.rows[2].artist = NA
    /\ cl_input.rows[2].genre = NA
    /\ cl_result.rows[2].artist = "Unknown"
    /\ cl_result.rows[1].popularity_norm = Num(4, 5)

\* C23: clean_youtube_data replaces every missing title and channel_title by
\* 'Unknown', and for a table of non-negative counts, one whose maximum
\* count is 0 included, every view_count_norm and like_count_norm lies in
\* [0, 1] and is 1 in the row that holds the maximum.
C23_NormalisedToUnitScale ==
    (cl_pc = "returned" /\ cl_fn = "clean_youtube_data") =>
        \A i \in DOMAIN cl_input.rows :
            /\ Filled("title", i)
            /\ Filled("channel_title", i)
            /\ \A c \in {"view_count", "like_count"} \cap cl_input.columns :
                  LET norm == cl_result.rows[i][IF c = "view_count"
                                                THEN "view_count_norm"
                                                ELSE "like_count_norm"]
                      count == cl_input.rows[i][c]
                      max == SeriesMax(Column(cl_input, c))
                  IN /\ norm.kind = "num"
                     /\ 0 <= norm.num /\ norm.num <= norm.den
                     /\ count = max => norm = Num(1, 1)

\* the names of the required keys that the environment lacks or sets to ''
EnvMissing(env) ==
    {k \in {"SPOTIFY_CLIENT_ID", "SPOTIFY_CLIENT_SECRET", "YOUTUBE_API_KEY"} :
        ~env[k].set \/ env[k].chars = <<>>}

\* C25: validate_keys returns True exactly when the three required keys are
\* all set to non-empty values and otherwise raises ValueError whose message
\* names exactly the keys that are missing or empty; the validation run at
\* import is caught, so the import completes, with a warning printed.
C25_ValidateKeys ==
    hp_fn = "validate_keys" =>
        LET missing == EnvMissing(hp_args[1])
        IN /\ hp_pc = "returned" =>
                /\ (hp_result.kind = "bool" /\ hp_result.value) <=> missing = {}
                /\ missing # {} =>
                      /\ hp_result.kind = "ValueError"
                      /\ {hp_result.message[2][i] : i \in DOMAIN hp_result.message[2]}
                            = missing
                      /\ Len(hp_result.message[2]) = Cardinality(missing)
           /\ hp_pc = "call" =>
                /\ hp_result.kind = "module"
                /\ missing # {} => hp_result.printed[1] = "Warning: "
           /\ hp_pc = "import raised" => IntOfPort(hp_args[1].PORT).kind = "ValueError"

C25_Witness ==
    /\ hp_fn = "validate_keys"
    /\ hp_pc = "returned"
    /\ hp_args[1].SPOTIFY_CLIENT_ID = EnvStr(<<"k">>)
    /\ hp_args[1].SPOTIFY_CLIENT_SECRET = EnvStr(<<>>)
    /\ hp_args[1].YOUTUBE_API_KEY = EnvUnset
    /\ hp_result.kind = "ValueError"
    /\ hp_result.message[2] = <<"SPOTIFY_CLIENT_SECRET", "YOUTUBE_API_KEY">>

\* the empty result of a method: [] or None
EmptyResult(method) ==
    [kind |-> IF method \in {"get_artist_popularity", "get_channel_stats"}
              THEN "None" ELSE "list",
     value |-> <<>>, exc |-> ""]

SpotifyMethods == {"get_top_tracks_by_genre", "get_trending_tracks", "get_artist_popularity"}

\* the client field the called method reads
ClientOfCall == IF ft_call.method \in SpotifyMethods THEN ft_sp ELSE ft_youtube

\* C24: the construction of a fetcher does not raise and leaves the client
\* field a client or None; with None, every method returns its empty result
\* ([] or None) and sends no request to the API.
C24_NoClientNoCall ==
    /\ ft_pc \in {"ready", "returned"} =>
          ft_sp \in {"client", "None"} /\ ft_youtube \in {"client", "None"}
    /\ (ft_pc = "returned" /\ ClientOfCall = "None") =>
          /\ ft_requests = <<>>
          /\ ft_result = EmptyResult(ft_call.method)

C24_Witness ==
    /\ ft_pc = "returned"
    /\ ft_sp = "None"
    /\ ft_call.method = "get_trending_tracks"
    /\ ft_call.limit = 50
    /\ ft_api.search = "ok"
    /\ ft_api.tracks = "full"
    /\ ft_api.playlists = <<"Top 50">>
    /\ ft_requests = <<>>
    /\ ft_result.value = <<>>

\* C26: for a limit >= 0 get_top_tracks_by_genre and get_trending_tracks
\* return at most min(limit, 50) tracks, and no request of
\* get_trending_videos or search_videos asks for more than 50 results.
C26_Limits ==
    ft_pc = "returned" =>
        /\ ft_call.method \in {"get_top_tracks_by_genre", "get_trending_tracks"} =>
              /\ Len(ft_result.value) <= ft_call.limit
              /\ Len(ft_result.value) <= 50
        /\ ft_call.method \in {"get_trending_videos", "search_videos"} =>
              \A i \in DOMAIN ft_requests : ft_requests[i].limit <= 50

C26_Witness ==
    /\ ft_pc = "returned"
    /\ ft_call.method = "get_top_tracks_by_genre"
    /\ ft_call.limit = 60
    /\ Len(ft_api.playlists) = 5
    /\ Len(ft_result.value) = 50
    /\ Len(ft_requests) = 6

\* C28: every record that search_videos returns has the statistics of its
\* own video: its view_count is that of the statistics item whose id is the
\* record's video_id.
C28_StatisticsOfSameVideo ==
    (ft_pc = "returned" /\ ft_call.method = "search_videos") =>
        \A i \in DOMAIN ft_result.value :
            ft_result.value[i].view_count = Num(ViewsOf(ft_result.value[i].video_id), 1)

\* C29: process_data does not raise, for every value of the filters and
\* every content of the stores that update_data_stores writes, and returns
\* [] when both stores are empty.
C29_ProcessDataReturns ==
    /\ ds_pc # "process raised"
    /\ (ds_pc = "processed" /\ ds_spotify = <<>> /\ ds_youtube = <<>>) =>
          ds_processed = <<>>

\* the API raised, or answered with a response that lacks a field or holds
\* a statistic that is no number, in a request that the call has sent
ApiFailed ==
    LET method == ft_call.method
        answered == Answered(ft_api.items, Min({ft_call.limit, 50}))
    IN /\ ClientOfCall = "client"
       /\ IF method \in {"get_top_tracks_by_genre", "get_trending_tracks"}
          THEN \/ ft_api.search \in {"raise", "malformed"}
               \/ /\ ft_api.tracks \in {"raise", "malformed"}
                  /\ \E p \in DOMAIN ft_api.playlists : Selected(method, ft_api.playlists[p])
          ELSE IF method = "get_artist_popularity"
          THEN ft_api.search \in {"raise", "malformed"}
          ELSE IF method = "get_trending_videos"
          THEN \/ ft_api.list = "raise"
               \/ \E i \in DOMAIN answered : answered[i] \in {"noid", "badstats"}
          ELSE IF method = "search_videos"
          THEN \/ ft_api.list = "raise"
               \/ /\ ft_api.statslist = "raise"
                  /\ \E i \in DOMAIN answered : IsVideo(answered[i])
          ELSE \/ ft_api.list = "raise"
               \/ ft_api.items # <<>> /\ ft_api.items[1] = "badstats"

\* C30: no fetch method lets an exception of the API client or of the
\* reading of a malformed response out: the method then returns its empty
\* result, and update_data_stores completes and writes both stores.
C30_NoExceptionPropagates ==
    /\ ft_pc = "returned" =>
          /\ ft_result.kind # "raise"
          /\ ApiFailed => ft_result = EmptyResult(ft_call.method)
    /\ ds_pc \in {"idle", "stored"}

C30_Witness ==
    /\ ft_pc = "returned"
    /\ ft_youtube = "client"
    /\ ft_call.method = "get_trending_videos"
    /\ ft_call.limit = 50
    /\ ft_api.list = "ok"
    /\ ft_api.items = <<"plain", "noid">>
    /\ Len(ft_requests) = 1
    /\ ft_result = EmptyResult("get_trending_videos")

\* two tables with the same rows but for the sales of the months of the test
\* period, the last DefaultTestSize months of each product
AgreeOnTraining(a, b) ==
    LET last(i) == CHOOSE m \in {a[j].date : j \in DOMAIN a} :
                       /\ \E j \in DOMAIN a :
                             a[j].product_id = a[i].product_id /\ a[j].date = m
                       /\ \A j \in DOMAIN a :
                             a[j].product_id = a[i].product_id => a[j].date <= m
    IN /\ Len(a) = Len(b)
       /\ \A i \in DOMAIN a :
             /\ a[i].date = b[i].date
             /\ a[i].product_id = b[i].product_id
             /\ a[i].sales # b[i].sales => a[i].date > last(i) - DefaultTestSize

\* the training frame preprocess_data makes of a table for a key
TrainOf(table, key) == SliceTo(Resampled(table, key), -DefaultTestSize)

\* C27: the forecasts do not depend on the held-out data: every forecast
\* stored is the one a run on any table with the same training prefixes
\* computes, whatever that table's test suffix is, and compare_models, the
\* first to read test_data, is called only when both forecast dictionaries
\* are complete.
C27_ForecastsIgnoreHeldOut ==
    /\ \A other \in FlowTables :
          AgreeOnTraining(df, other) =>
              /\ \A key \in DOMAIN arima_forecasts :
                    \E d \in 0..DefaultMaxDiff :
                        arima_forecasts[key] =
                            ArimaForecast(ArimaModel(DiffN(Sales(TrainOf(other, key)), d),
                                                     ArimaOrder(d)),
                                          forecast_steps)
              /\ \A key \in DOMAIN prophet_forecasts :
                    prophet_forecasts[key] =
                        ProphetForecast(ProphetModel(TrainOf(other, key)), forecast_steps)
    /\ cm_pc # "idle" =>
          /\ ap_pc = "returned"
          /\ pp_pc = "returned"
          /\ DOMAIN arima_forecasts = GroupKeys(df)
          /\ DOMAIN prophet_forecasts = GroupKeys(df)

C27_Witness ==
    /\ cm_pc = "start"
    /\ DOMAIN arima_forecasts = {1, 2}
    /\ Len(train_data[1]) = 2
    /\ test_data[1][1].sales = 3
    /\ \E other \in FlowTables :
          /\ AgreeOnTraining(df, other)
          /\ other[Len(train_data[1]) + 1].sales = 0

====
